---- MODULE Spec2Model ----
(***************************************************************************)
(* A model of the account package of breez: the LNURL client              *)
(* (HandleLNURL, FinishLNURLAuth, FinishLNURLWithdraw, FinishLNURLPay)     *)
(* and the sweep planner (SweepAllCoinsTransactions with its rpcUtxoSource *)
(* adapter).  Remote services, the invoice decoder, the key derivation     *)
(* library and the sweep builder are the environment: their answers are    *)
(* drawn from small sets.                                                  *)
(***************************************************************************)
EXTENDS Integers, Sequences, FiniteSets, TLC

(***************************************************************************)
(* Bounds of the model.                                                    *)
(***************************************************************************)
\* digest bytes kept of a sha256 sum (the code compares all 32)
HashBytes == 2
\* size of the child index space; stands for the 2^32 values of a uint32
IndexSpace == 4

(***************************************************************************)
(* Go pointers and optional values: Nil, or a one-element sequence.        *)
(***************************************************************************)
Nil == <<>>
Some(v) == <<v>>

(***************************************************************************)
(* encoding/hex and crypto/sha256.                                         *)
(***************************************************************************)
HexDigits ==
  <<"0", "1", "2", "3", "4", "5", "6", "7", "8", "9", "a", "b", "c", "d", "e", "f">>

HexByte(b) == HexDigits[(b \div 16) + 1] \o HexDigits[(b % 16) + 1]

RECURSIVE HexEncodeToString(_)
HexEncodeToString(bs) ==
  IF bs = <<>> THEN "" ELSE HexByte(Head(bs)) \o HexEncodeToString(Tail(bs))

\* the encoded metadata strings services send in this model
EncodedHi == "[[\"text/plain\",\"hi\"]]"
EncodedYo == "[[\"text/plain\",\"yo\"]]"

\* the leading bytes of the real SHA-256 digest of each string of the model
Sha256Sum(s) ==
  CASE s = "" -> <<227, 176, 196, 66>>
    [] s = EncodedHi -> <<193, 48, 70, 126>>
    [] s = EncodedYo -> <<209, 141, 165, 158>>

Sha256(s) == SubSeq(Sha256Sum(s), 1, HashBytes)

\* go-lnurl parses EncodedMetadata (a JSON array of pairs) into Metadata
ParseMetadata(encoded) ==
  CASE encoded = EncodedHi -> << <<"text/plain", "hi">> >>
    [] encoded = EncodedYo -> << <<"text/plain", "yo">> >>
    [] encoded = "" -> <<>>

\* lnurl.Metadata.Description: the value of the text/plain entry
RECURSIVE MetadataDescription(_)
MetadataDescription(md) ==
  IF md = <<>> THEN ""
  ELSE IF Head(md)[1] = "text/plain" THEN Head(md)[2]
  ELSE MetadataDescription(Tail(md))

(***************************************************************************)
(* net/url: a URL is its part before the query and its query, a sequence  *)
(* of <<key, value>> pairs.                                                *)
(***************************************************************************)
KeyRank(k) ==
  CASE k = "amount" -> 1
    [] k = "comment" -> 2
    [] k = "jwt" -> 3
    [] k = "k1" -> 4
    [] k = "key" -> 5
    [] k = "nonce" -> 6
    [] k = "sig" -> 7
    [] k = "tag" -> 8

RECURSIVE QueryDel(_, _)
QueryDel(q, k) ==
  IF q = <<>> THEN <<>>
  ELSE IF Head(q)[1] = k THEN QueryDel(Tail(q), k)
  ELSE <<Head(q)>> \o QueryDel(Tail(q), k)

\* url.Values.Add appends a value to the key's list
QueryAdd(q, k, v) == Append(q, <<k, v>>)

\* url.Values.Set replaces the key's list by the one value
QuerySet(q, k, v) == Append(QueryDel(q, k), <<k, v>>)

RECURSIVE QueryOfRank(_, _)
QueryOfRank(q, r) ==
  IF q = <<>> THEN <<>>
  ELSE IF KeyRank(Head(q)[1]) = r THEN <<Head(q)>> \o QueryOfRank(Tail(q), r)
  ELSE QueryOfRank(Tail(q), r)

RECURSIVE QuerySorted(_, _)
QuerySorted(q, r) ==
  IF r > 8 THEN <<>> ELSE QueryOfRank(q, r) \o QuerySorted(q, r + 1)

RECURSIVE QueryJoin(_)
QueryJoin(q) ==
  IF q = <<>> THEN ""
  ELSE Head(q)[1] \o "=" \o Head(q)[2]
       \o (IF Tail(q) = <<>> THEN "" ELSE "&" \o QueryJoin(Tail(q)))

\* url.Values.Encode: "k=v&k=v", sorted by key
QueryEncode(q) == QueryJoin(QuerySorted(q, 1))

\* url.Parse of the callbacks of the model
UrlParse(s) ==
  IF s = "https://a.example/login?tag=login&k1=c1"
  THEN [base |-> "https://a.example/login",
        query |-> << <<"tag", "login">>, <<"k1", "c1">> >>]
  ELSE [base |-> s, query |-> <<>>]

\* url.URL.String
UrlString(u) ==
  IF u.query = <<>> THEN u.base ELSE u.base \o "?" \o QueryEncode(u.query)

(***************************************************************************)
(* The state of the account service and of its collaborators.              *)
(***************************************************************************)
VARIABLES
  lnurlWithdrawing,  \* a.lnurlWithdrawing: the withdraw callback, "" at start
  lnurlPayMetadata,  \* a.lnurlPayMetadata: [encoded, data]
  payInfos,          \* breezDB: payment hash -> Nil or Some(LNUrlPayInfo)
  last,              \* the most recent call: its arguments and what it returned
  captured,          \* history: <<pay response returned, metadata string of it>>
  pending,           \* a FinishLNURLPay call the caller is about to make, or Nil
  seedDB,            \* breezDB: the LNURL auth seed, Nil until it is created
  backups,           \* how many times a.requestBackup was called
  authPc,            \* "idle", or "loop": FinishLNURLAuth is in the loop of line 136
  nextChildIndex,    \* the loop's nextChildIndex
  walletUtxos,       \* the remote wallet's unspent outputs
  sweepPc,           \* "idle", or "tiers": SweepAllCoinsTransactions is in its loop
  tierIdx,           \* the position of the loop of line 92 in targets
  td,                \* the loop's td: conf target -> Nil or Some(TransactionDetails)
  totalAmount,       \* the loop's totalAmount
  rus,               \* an rpcUtxoSource: [totalAmount]
  linkKeys,          \* history: [seed, host, key] of every link key derived
  daemon             \* the lnnode.Daemon: its fields, goroutines and callers

authVars == <<seedDB, backups, authPc, nextChildIndex>>

sweepVars == <<walletUtxos, sweepPc, tierIdx, td, totalAmount, rus>>

\* what the calls of the account service leave alone: what a sequence of
\* calls keeps beside the program's state, and the node daemon
callerVars == <<pending, linkKeys, daemon>>

vars ==
  <<lnurlWithdrawing, lnurlPayMetadata, payInfos, last, captured, pending,
    seedDB, backups, authPc, nextChildIndex,
    walletUtxos, sweepPc, tierIdx, td, totalAmount, rus, linkKeys, daemon>>

(***************************************************************************)
(* The node daemon (lnnode.Daemon).  daemon holds the fields of the        *)
(* struct, its mutex and wait group, the goroutines of every run and the   *)
(* callers of Start and Stop.  A run is what one successful startDaemon    *)
(* starts; its number is that of the quitChan made for it.  lnd, its       *)
(* signal package, the notification server and startSubscriptions are the  *)
(* environment.                                                            *)
(***************************************************************************)
\* successful startDaemon calls
MaxRuns == 2
\* calls of Stop
MaxStops == 2

NewDaemon ==
  [started |-> 0, stopped |-> 0, daemonRunning |-> FALSE,
   lock |-> "free",            \* "free", or the stopDaemon inside: "Stop", "go"
   quitChan |-> 0,             \* the channel made for the run of this number
   closes |-> [r \in 1 .. MaxRuns |-> 0],      \* close() calls on each channel
   wg |-> 0,
   alive |-> TRUE,             \* signal.Alive()
   main |-> [r \in 1 .. MaxRuns |-> "none"],   \* goroutine of line 236
   notify |-> [r \in 1 .. MaxRuns |-> "none"], \* notifyWhenReady
   stops |-> 0,                \* `go d.stopDaemon()` not yet at the lock
   startPc |-> "idle",         \* the Start that swapped started
   stopPc |-> [i \in 1 .. MaxStops |-> "idle"],
   downEvents |-> 0,           \* DaemonDownEvent updates sent
   ret |-> [op |-> "none", err |-> ""],        \* the call that returned last
   node |-> [client |-> FALSE,  \* APIClient() is not nil
             allActive |-> FALSE],             \* what allChannelsActive finds
   w |-> [pc |-> "idle",        \* the caller of WaitReadyForPayment
          subscribed |-> FALSE, \* its client of the notification server
          updates |-> <<>>,     \* client.Updates(), not yet received
          timer |-> "none",     \* time.After: "none", "armed", "fired"
          err |-> "",
          obs |-> [at |-> "none", ready |-> FALSE],  \* its last IsReadyForPayment
          sawActive |-> FALSE,  \* allActive when that call was made
          early |-> FALSE]]     \* an update came before the select

accountVars ==
  <<lnurlWithdrawing, lnurlPayMetadata, payInfos, last, captured, pending,
    linkKeys, authVars, sweepVars>>

\* a slip: daemonRunning not looked at
RunningUnchecked(d) == FALSE

\* line 224: d.daemonRunning, read under the lock
Running(d) == d.daemonRunning

\* a slip: stopDaemon going on whatever daemonRunning says
StoppedNever(d) == FALSE

\* line 325: !d.daemonRunning, read under the lock
Stopped(d) == ~d.daemonRunning

\* startDaemon, lines 221-282, entered with the lock free: [d, err]
startDaemon(d) ==
  IF Running(d) THEN [d |-> d, err |-> "Daemon already running"]
  ELSE LET r == d.quitChan + 1 IN
       [d |-> [d EXCEPT !.quitChan = r, !.wg = @ + 2, !.daemonRunning = TRUE,
                        !.notify[r] = "select", !.main[r] = "running"],
        err |-> ""]

\* Start, lines 33-41: the swap of started, and ntfnServer.Start
Start ==
  /\ IF daemon.started = 1
     THEN daemon' = [daemon EXCEPT
                       !.ret = [op |-> "Start", err |-> "Daemon already started"]]
     ELSE \E ntfnOk \in BOOLEAN :
            daemon' = [daemon EXCEPT
                         !.started = 1,
                         !.startPc = IF ntfnOk THEN "startDaemon" ELSE "returned",
                         !.ret = IF ntfnOk THEN @
                                 ELSE [op |-> "Start", err |-> "ntfnServer.Start"]]
  /\ UNCHANGED accountVars

\* Start, lines 43-49
StartReturns ==
  /\ daemon.startPc = "startDaemon"
  /\ daemon.lock = "free"
  /\ Running(daemon) \/ daemon.quitChan < MaxRuns
  /\ LET s == startDaemon(daemon) IN
     daemon' = [s.d EXCEPT
                  !.startPc = "returned",
                  !.ret = [op |-> "Start",
                           err |-> IF s.err = "" THEN ""
                                   ELSE "Failed to start daemon: " \o s.err]]
  /\ UNCHANGED accountVars

\* RestartDaemon, lines 183-190
RestartDaemon ==
  /\ IF daemon.started = 0
     THEN daemon' = [daemon EXCEPT
                       !.ret = [op |-> "RestartDaemon",
                                err |-> "Daemon must be started before attempt to restart"]]
     ELSE /\ daemon.lock = "free"
          /\ Running(daemon) \/ daemon.quitChan < MaxRuns
          /\ LET s == startDaemon(daemon) IN
             daemon' = [s.d EXCEPT !.ret = [op |-> "RestartDaemon", err |-> s.err]]
  /\ UNCHANGED accountVars

\* the goroutine of line 236 ends, a service having failed to start or
\* lnd.Main having returned: lines 237-240 start a stopDaemon and call Done
MainExits(r) ==
  /\ daemon.main[r] = "running"
  /\ daemon' = [daemon EXCEPT !.main[r] = "done", !.stops = @ + 1, !.wg = @ - 1]
  /\ UNCHANGED accountVars

\* notifyWhenReady, lines 341-351: lnd signals readyChan while it runs and
\* startSubscriptions returns nil or an error, or the quitChan that was read
\* on entering the select is closed
notifyWhenReady(r) ==
  /\ daemon.notify[r] = "select"
  /\ \/ /\ daemon.main[r] = "running"
        /\ \E subscribed \in BOOLEAN :
             daemon' = [daemon EXCEPT !.notify[r] = "done", !.wg = @ - 1,
                                      !.stops = IF subscribed THEN @ ELSE @ + 1]
     \/ /\ daemon.closes[r] > 0
        /\ daemon' = [daemon EXCEPT !.notify[r] = "done", !.wg = @ - 1]
  /\ UNCHANGED accountVars

\* stopDaemon, lines 322-333, called by Stop (who = "Stop") or started with
\* go (who = "go"): up to the wait on the wait group
stopDaemon(who) ==
  /\ daemon.lock = "free"
  /\ IF who = "go" THEN daemon.stops > 0
     ELSE \E i \in 1 .. MaxStops : daemon.stopPc[i] = "stopDaemon"
  /\ LET d == IF who = "go" THEN [daemon EXCEPT !.stops = @ - 1] ELSE daemon IN
     daemon' =
       IF ~Stopped(d)
       THEN [d EXCEPT !.lock = who, !.alive = FALSE, !.closes[d.quitChan] = @ + 1]
       ELSE [d EXCEPT !.stopPc = [i \in 1 .. MaxStops |->
                                    IF who = "Stop" /\ @[i] = "stopDaemon"
                                    THEN "wait" ELSE @[i]]]
  /\ UNCHANGED accountVars

\* stopDaemon, lines 334-338: the wait group is at zero
stopDaemonReturns ==
  /\ daemon.lock # "free"
  /\ daemon.wg = 0
  /\ daemon' = [daemon EXCEPT
                  !.daemonRunning = FALSE, !.downEvents = @ + 1, !.lock = "free",
                  !.stopPc = [i \in 1 .. MaxStops |->
                                IF daemon.lock = "Stop" /\ @[i] = "stopDaemon"
                                THEN "wait" ELSE @[i]]]
  /\ UNCHANGED accountVars

\* Stop, line 124: the swap of stopped
Stop(i) ==
  /\ daemon.stopPc[i] = "idle"
  /\ IF i = 1 THEN TRUE ELSE daemon.stopPc[i - 1] # "idle"
  /\ daemon' = IF daemon.stopped = 0
               THEN [daemon EXCEPT !.stopped = 1, !.stopPc[i] = "stopDaemon"]
               ELSE [daemon EXCEPT !.stopPc[i] = "wait"]
  /\ UNCHANGED accountVars

\* Stop, lines 128-130: d.wg.Wait() returns
StopReturns(i) ==
  /\ daemon.stopPc[i] = "wait"
  /\ daemon.wg = 0
  /\ daemon' = [daemon EXCEPT !.stopPc[i] = "returned",
                              !.ret = [op |-> "Stop", err |-> ""]]
  /\ UNCHANGED accountVars

(***************************************************************************)
(* What HandleLNURL can be pointed at: the outcome of finding the LNURL in *)
(* the text, and of the GET that go-lnurl makes.                           *)
(***************************************************************************)
Reasons == {"rate limited", "denied"}

PayTargets ==
  { [kind |-> "payRequest", host |-> "a.example",
     Callback |-> "https://a.example/pay", EncodedMetadata |-> EncodedHi,
     MinSendable |-> 1500, MaxSendable |-> 2000500],
    [kind |-> "payRequest", host |-> "b.example",
     Callback |-> "https://b.example/pay", EncodedMetadata |-> EncodedYo,
     MinSendable |-> 1000, MaxSendable |-> 1000000] }

WithdrawTargets ==
  { [kind |-> "withdrawRequest",
     CallbackURL |-> [base |-> "https://w.example/cb", query |-> <<>>],
     K1 |-> "aa", MinWithdrawable |-> 1500, MaxWithdrawable |-> 2000500,
     DefaultDescription |-> "w"],
    [kind |-> "withdrawRequest",
     CallbackURL |-> [base |-> "https://v.example/cb",
                      query |-> << <<"tag", "x">>, <<"k1", "00">> >>],
     K1 |-> "bb", MinWithdrawable |-> 1000, MaxWithdrawable |-> 1000000,
     DefaultDescription |-> "v"] }

AuthTargets ==
  { [kind |-> "login", Tag |-> "login", Callback |-> "https://a.example/login",
     K1 |-> "c1", Host |-> "a.example"] }

ChannelTargets ==
  { [kind |-> "channelRequest", K1 |-> "d1", Callback |-> "https://c.example/ch",
     URI |-> "node@c.example:9735"] }

LnurlTargets ==
  { [kind |-> "notext"], [kind |-> "neterr"], [kind |-> "other"] }
    \cup { [kind |-> "status_error", reason |-> r] : r \in Reasons }
    \cup PayTargets \cup WithdrawTargets \cup AuthTargets \cup ChannelTargets

\* lnurl.HandleLNURL (go-lnurl): the error it returns, "" for none.  A body
\* whose status is "ERROR" becomes an LNURLErrorResponse, whose text is the
\* body's reason.
LnurlError(t) ==
  CASE t.kind = "neterr" -> "Get: connection refused"
    [] t.kind = "status_error" -> t.reason
    [] OTHER -> ""

\* math.Floor(float64(msat) / 1000) and math.Ceil(float64(msat) / 1000)
\* float64 arithmetic, with the significand scaled to MantissaBits bits (53
\* in the build): integers below 2^MantissaBits convert exactly, larger ones
\* round to the nearest representable value, ties to the even significand.
MantissaBits == 20

RECURSIVE Pow2(_)
Pow2(n) == IF n = 0 THEN 1 ELSE 2 * Pow2(n - 1)

RoundHalfEven(n, d) ==
  LET q == n \div d
      r == n % d
  IN  IF 2 * r > d \/ (2 * r = d /\ q % 2 = 1) THEN q + 1 ELSE q

\* float64(x) of a non-negative int64, given as the integer it denotes.
Float64(x) ==
  LET RECURSIVE Ulp(_)
      Ulp(u) == IF x \div u < Pow2(MantissaBits) THEN u ELSE Ulp(2 * u)
  IN  RoundHalfEven(x, Ulp(1)) * Ulp(1)

\* f / 1000 in float64: the quotient rounded to MantissaBits significant
\* bits, given as num / den with den a power of two.
DivideBy1000(f) ==
  LET RECURSIVE Den(_)
      Den(d) == IF f * d >= 500 * Pow2(MantissaBits) THEN d ELSE Den(2 * d)
  IN  IF f = 0 THEN [num |-> 0, den |-> 1]
      ELSE [num |-> RoundHalfEven(f * Den(1), 1000), den |-> Den(1)]

\* int64(math.Floor(float64(msat) / 1000)), int64(math.Ceil(...)).
FloorSat(msat) ==
  LET q == DivideBy1000(Float64(msat)) IN q.num \div q.den
CeilSat(msat) ==
  LET q == DivideBy1000(Float64(msat)) IN (q.num + q.den - 1) \div q.den

\* the callback a Withdraw variant leaves in a.lnurlWithdrawing
WithdrawCallback(t) ==
  UrlString([base |-> t.CallbackURL.base,
             query |-> QuerySet(t.CallbackURL.query, "k1", t.K1)])

\* the data.LNUrlResponse returned for a variant
LNUrlResponse(t) ==
  CASE t.kind = "login" ->
         [Action |-> "Auth", Tag |-> t.Tag, Callback |-> t.Callback,
          K1 |-> t.K1, Host |-> t.Host]
    [] t.kind = "withdrawRequest" ->
         [Action |-> "Withdraw", MinAmount |-> CeilSat(t.MinWithdrawable),
          MaxAmount |-> FloorSat(t.MaxWithdrawable),
          DefaultDescription |-> t.DefaultDescription]
    [] t.kind = "channelRequest" ->
         [Action |-> "Channel", K1 |-> t.K1, Callback |-> t.Callback,
          Uri |-> t.URI]
    [] t.kind = "payRequest" ->
         [Action |-> "PayResponse1", Host |-> t.host, Callback |-> t.Callback,
          MinAmount |-> FloorSat(t.MinSendable),
          MaxAmount |-> FloorSat(t.MaxSendable),
          Metadata |-> ParseMetadata(t.EncodedMetadata)]

\* the error HandleLNURL returns, "" for none
HandleLNURLError(t) ==
  IF t.kind = "notext" THEN "does not contain an LNURL."
  ELSE IF LnurlError(t) # "" THEN LnurlError(t)
  ELSE IF t.kind \in {"login", "withdrawRequest", "channelRequest", "payRequest"}
  THEN ""
  ELSE "Unsupported LNURL"

\* the slot a resolved Pay variant fills
PayMetadataOf(t) ==
  [encoded |-> t.EncodedMetadata, data |-> ParseMetadata(t.EncodedMetadata)]

HandleLNURL(t) ==
  LET err == HandleLNURLError(t) IN
  /\ lnurlWithdrawing' =
       IF err = "" /\ t.kind = "withdrawRequest" THEN WithdrawCallback(t)
       ELSE lnurlWithdrawing
  /\ lnurlPayMetadata' =
       IF err = "" /\ t.kind = "payRequest" THEN PayMetadataOf(t)
       ELSE lnurlPayMetadata
  /\ captured' =
       IF err = "" /\ t.kind = "payRequest"
       THEN captured \cup {<<LNUrlResponse(t), t.EncodedMetadata>>}
       ELSE captured
  /\ last' = [op |-> "HandleLNURL", target |-> t, err |-> err,
              resp |-> IF err = "" THEN Some(LNUrlResponse(t)) ELSE Nil]
  /\ UNCHANGED <<payInfos, authVars, sweepVars>>

(***************************************************************************)
(* SweepAllCoinsTransactions.  The remote wallet's outputs, the fee        *)
(* estimates, the signer and lnd's sweep builder are the environment.      *)
(***************************************************************************)
\* line 26
targets == <<2, 6, 25>>

\* chainfee.FeePerKwFloor: lnd's estimators return no rate below it
FeePerKwFloor == 253

\* the rates EstimateFee answers with (line 53)
FeeRates == {FeePerKwFloor, FeePerKwFloor * 10}

\* lnwallet.DefaultDustLimit()
DefaultDustLimit == 330

\* the outputs the remote wallet can hold: the ListUnspent records
UtxoUniverse ==
  { [id |-> "u1", AmountSat |-> 400, AddressType |-> "WITNESS_PUBKEY_HASH"],
    [id |-> "u2", AmountSat |-> 60000, AddressType |-> "NESTED_PUBKEY_HASH"],
    [id |-> "u3", AmountSat |-> 7000, AddressType |-> "UNKNOWN"] }

RECURSIVE SumAmounts(_)
SumAmounts(utxos) ==
  IF utxos = {} THEN 0
  ELSE LET u == CHOOSE x \in utxos : TRUE
       IN u.AmountSat + SumAmounts(utxos \ {u})

RECURSIVE SumValues(_)
SumValues(values) ==
  IF values = <<>> THEN 0 ELSE Head(values) + SumValues(Tail(values))

\* lines 160-164: a new source, its totalAmount the zero value
NewRpcUtxoSource == [totalAmount |-> 0]

\* what ListUnspent answers with: the wallet's records, in the wallet's order
ListUnspent(utxos) ==
  LET ids == <<"u1", "u3", "u2">>
      all == [i \in 1..Len(ids) |-> CHOOSE r \in UtxoUniverse : r.id = ids[i]]
  IN SelectSeq(all, LAMBDA r : r \in utxos)

\* a slip: the total of the call before kept
TotalCarriedOver(u) == u.totalAmount

\* line 175: u.totalAmount = 0
TotalAtStart(u) == 0

\* lines 176-212: the loop over the records; total is u.totalAmount
RECURSIVE ListLoop(_, _, _)
ListLoop(records, lu, total) ==
  IF records = <<>> THEN [err |-> "", utxos |-> lu, totalAmount |-> total]
  ELSE IF Head(records).AddressType \notin {"WITNESS_PUBKEY_HASH", "NESTED_PUBKEY_HASH"}
  THEN [err |-> "invalid utxo address type", utxos |-> {}, totalAmount |-> total]
  ELSE ListLoop(Tail(records), lu \cup {Head(records)}, total + Head(records).AmountSat)

\* rpcUtxoSource.ListUnspentWitness, lines 166-214, of the source u on the
\* wallet's outputs: [err, utxos, totalAmount], totalAmount being what
\* u.totalAmount is after the call
ListUnspentWitness(u, rpcOk, listed) ==
  IF ~rpcOk
  THEN [err |-> "u.lightningClient.ListUnspent", utxos |-> {},
        totalAmount |-> u.totalAmount]
  ELSE ListLoop(ListUnspent(listed), {}, TotalAtStart(u))

\* lnd's weight estimate of one input of the sweep
InputWeight(u) == IF u.AddressType = "WITNESS_PUBKEY_HASH" THEN 273 ELSE 365

RECURSIVE InputsWeight(_)
InputsWeight(utxos) ==
  IF utxos = {} THEN 0
  ELSE LET u == CHOOSE x \in utxos : TRUE
       IN InputWeight(u) + InputsWeight(utxos \ {u})

\* lnd's weight estimate of a sweep of these inputs to one output
TxWeight(utxos) == 166 + InputsWeight(utxos)

\* chainfee.SatPerKWeight.FeeForWeight
FeeForWeight(feePerKw, weight) == (feePerKw * weight) \div 1000

\* sweep.CraftSweepAllTx (lnd) with the source's listing: [err, rule, tx].
\* It lists the outputs once, spends every one of them, pays what is left
\* after the fee to the address, drops that output when it is below the dust
\* limit, and checks the transaction's sanity (a blockchain.RuleError when
\* it has no output) before it has it signed.
CraftSweepAllTx(feePerKw, dustLimit, listing, signOk) ==
  LET fee == FeeForWeight(feePerKw, TxWeight(listing.utxos))
      total == SumAmounts(listing.utxos)
      change == total - fee
      fail(e, r) == [err |-> e, rule |-> r, tx |-> [inputs |-> {}, outputs |-> <<>>]]
  IN
  IF listing.err # "" THEN fail(listing.err, FALSE)
  ELSE IF fee > total THEN fail("insufficient input to create sweep tx", FALSE)
  ELSE IF change < dustLimit THEN fail("transaction has no outputs", TRUE)
  ELSE IF ~signOk THEN fail("srpc.ComputeInputScript", FALSE)
  ELSE [err |-> "", rule |-> FALSE,
        tx |-> [inputs |-> listing.utxos, outputs |-> <<change>>]]

\* a slip: the fee taken from the running total of the tiers before
TierFeesOfRunningTotal(rusTotal, runningTotal, amtOut) == runningTotal - amtOut

\* line 133: Fees
TierFees(rusTotal, runningTotal, amtOut) == rusTotal - amtOut

\* the destination strings: what btcutil.DecodeAddress, IsForNet and
\* btcec.ParsePubKey of the hex-decoded string say of each
Addresses ==
  { [name |-> "bc1q", decodes |-> TRUE, forNet |-> TRUE, pubkey |-> FALSE],
    [name |-> "nonsense", decodes |-> FALSE, forNet |-> FALSE, pubkey |-> FALSE],
    [name |-> "tb1q", decodes |-> TRUE, forNet |-> FALSE, pubkey |-> FALSE],
    [name |-> "02ab", decodes |-> TRUE, forNet |-> TRUE, pubkey |-> TRUE],
    [name |-> "03cd", decodes |-> FALSE, forNet |-> FALSE, pubkey |-> TRUE] }

\* a slip: the check of line 80 left out
AddressErrorOfDecoding(address) ==
  IF ~address.decodes THEN "decoded address is of unknown format"
  ELSE IF ~address.forNet THEN "address is not valid for this network"
  ELSE ""

\* lines 63-82: the error, "" for none
AddressError(address) ==
  IF ~address.decodes THEN "decoded address is of unknown format"
  ELSE IF ~address.forNet THEN "address is not valid for this network"
  ELSE IF address.pubkey THEN "cannot send coins to pubkeys"
  ELSE ""

NoTransactions == [t \in {targets[i] : i \in 1..Len(targets)} |-> Nil]

InitSweepVars ==
  /\ walletUtxos = {}
  /\ sweepPc = "idle"
  /\ tierIdx = 1
  /\ td = NoTransactions
  /\ totalAmount = 0
  /\ rus = NewRpcUtxoSource

lnurlState ==
  <<lnurlWithdrawing, lnurlPayMetadata, payInfos, captured, callerVars, authVars>>

\* the call returns: its locals are gone.  calls: the remote calls it made.
SweepReturn(address, err, result, calls, outcomes) ==
  /\ last' = [op |-> "SweepAllCoinsTransactions", address |-> address, err |-> err,
              result |-> result, calls |-> calls, outcomes |-> outcomes]
  /\ sweepPc' = "idle"
  /\ tierIdx' = 1
  /\ td' = NoTransactions
  /\ totalAmount' = 0
  /\ rus' = NewRpcUtxoSource

\* lines 59-91: the address checks and GetInfo
SweepStart(address, infoOk) ==
  /\ sweepPc = "idle"
  /\ IF AddressError(address) # ""
     THEN SweepReturn(address, AddressError(address), Nil, {}, <<>>)
     ELSE IF ~infoOk THEN SweepReturn(address, "lnClient.GetInfo", Nil, {"GetInfo"}, <<>>)
     ELSE /\ sweepPc' = "tiers"
          /\ last' = [op |-> "SweepAllCoinsTransactions", address |-> address,
                      err |-> "", result |-> Nil, calls |-> {"GetInfo"},
                      outcomes |-> <<>>]
          /\ UNCHANGED <<tierIdx, td, totalAmount, rus>>
  /\ UNCHANGED <<walletUtxos, lnurlState>>

\* lines 92-136: one turn of the loop, and the return when it was the last.
\* a slip: every error of the builder taken for a rule error
IsRuleErrorAlways(pkg) == TRUE

\* lines 113-116: errors.As(err, &ruleErr)
IsRuleError(pkg) == pkg.rule

\* feeOk and feePerKw: the answer of EstimateFee; listOk: ListUnspent answers;
\* signOk: the signer signs; serializeOk: SweepTx.Serialize succeeds.
\* last.outcomes keeps what became of each tier so far.
SweepTier(feeOk, feePerKw, listOk, signOk, serializeOk) ==
  LET confTarget == targets[tierIdx]
      listing == ListUnspentWitness(NewRpcUtxoSource, listOk, walletUtxos)
      pkg == CraftSweepAllTx(feePerKw, DefaultDustLimit, listing, signOk)
      amtOut == SumValues(pkg.tx.outputs)
      details == [Tx |-> pkg.tx,
                  Fees |-> TierFees(listing.totalAmount, totalAmount, amtOut)]
      outcomes == Append(last.outcomes,
                         IF ~feeOk THEN "EstimateFee"
                         ELSE IF pkg.err # "" THEN (IF pkg.rule THEN "RuleError" ELSE pkg.err)
                         ELSE IF ~serializeOk THEN "Serialize" ELSE "built")
      tdNext == IF pkg.err = "" THEN [td EXCEPT ![confTarget] = Some(details)] ELSE td
      totalNext == IF pkg.err = "" THEN listing.totalAmount ELSE totalAmount
      calls == last.calls \cup {"EstimateFee"}
                 \cup (IF feeOk THEN {"ListUnspent"} ELSE {})
                 \cup (IF feeOk /\ pkg.err \in {"", "srpc.ComputeInputScript"}
                       THEN {"ComputeInputScript"} ELSE {})
  IN
  /\ sweepPc = "tiers"
  /\ IF ~feeOk
     THEN SweepReturn(last.address, "a.determineFeePerKw", Nil, calls, outcomes)
     ELSE IF pkg.err # "" /\ ~IsRuleError(pkg)
     THEN SweepReturn(last.address, "sweep.CraftSweepAllTx()", Nil, calls, outcomes)
     ELSE IF pkg.err = "" /\ ~serializeOk
     THEN SweepReturn(last.address, "tx.Serialize", Nil, calls, outcomes)
     ELSE IF tierIdx = Len(targets)
     THEN SweepReturn(last.address, "",
                      Some([Amt |-> totalNext, Transactions |-> tdNext]), calls, outcomes)
     ELSE /\ tierIdx' = tierIdx + 1
          /\ td' = tdNext
          /\ totalAmount' = totalNext
          /\ rus' = [totalAmount |-> listing.totalAmount]
          /\ last' = [last EXCEPT !.calls = calls, !.outcomes = outcomes]
          /\ UNCHANGED sweepPc
  /\ UNCHANGED <<walletUtxos, lnurlState>>

\* the remote wallet receives or spends an output
WalletChange(u) ==
  /\ walletUtxos' = IF u \in walletUtxos THEN walletUtxos \ {u} ELSE walletUtxos \cup {u}
  /\ UNCHANGED <<sweepPc, tierIdx, td, totalAmount, rus, last, lnurlState>>

SweepBegin == \E address \in Addresses, infoOk \in BOOLEAN : SweepStart(address, infoOk)

SweepNextTier ==
  \E feeOk \in BOOLEAN, feePerKw \in FeeRates, listOk \in BOOLEAN, signOk \in BOOLEAN,
     serializeOk \in BOOLEAN :
    SweepTier(feeOk, feePerKw, listOk, signOk, serializeOk)

WalletChanges == \E u \in UtxoUniverse : WalletChange(u)

(***************************************************************************)
(* FinishLNURLPay: the request, the service's answer and the checks.       *)
(***************************************************************************)
\* the network the wallet runs on (a.activeParams), as an invoice prefix
activeParams == "lnbc"

AmountsMsat == {999000, 1000000}
Comments == {"", "thx"}
PaymentHashes == {"ph1", "ph2"}
StatusCodes == {200, 320, 404}

StatusText(code) ==
  CASE code = 200 -> "200 OK"
    [] code = 320 -> "320 "
    [] code = 404 -> "404 Not Found"

\* the params a caller passes: a pay response it was given, the amount in
\* millisatoshi and the comment
ParamsOf(resp, amount, comment) ==
  [Callback |-> resp.Callback, Host |-> resp.Host, Metadata |-> resp.Metadata,
   Amount |-> amount, Comment |-> comment]

PayParams ==
  { ParamsOf(LNUrlResponse(t), a, c) :
      t \in PayTargets, a \in AmountsMsat, c \in Comments }

\* a payment request string, as what it encodes
DescriptionHashes ==
  {Nil} \cup { Some(Sha256(e)) : e \in {"", EncodedHi, EncodedYo} }

MalformedPR ==
  [hrp |-> "lnbc", wellFormed |-> FALSE, DescriptionHash |-> Nil,
   MilliSat |-> Nil, PaymentHash |-> "ph1"]

TestnetPR ==
  [hrp |-> "lntb", wellFormed |-> TRUE, DescriptionHash |-> Some(Sha256(EncodedHi)),
   MilliSat |-> Some(1000000), PaymentHash |-> "ph1"]

PaymentRequests ==
  {MalformedPR, TestnetPR}
    \cup [hrp : {"lnbc"}, wellFormed : {TRUE}, DescriptionHash : DescriptionHashes,
          MilliSat : {Nil} \cup { Some(a) : a \in AmountsMsat },
          PaymentHash : PaymentHashes]

SuccessActions ==
  { Nil,
    Some([Tag |-> "message", Description |-> "", URL |-> "", Message |-> "thanks",
          Ciphertext |-> "", IV |-> ""]),
    Some([Tag |-> "url", Description |-> "order", URL |-> "https://a.example/o",
          Message |-> "", Ciphertext |-> "", IV |-> ""]),
    Some([Tag |-> "aes", Description |-> "code", URL |-> "", Message |-> "",
          Ciphertext |-> "c1", IV |-> "iv1"]),
    Some([Tag |-> "bonus", Description |-> "", URL |-> "", Message |-> "",
          Ciphertext |-> "", IV |-> ""]) }

\* the body of the callback's answer: not JSON, an error envelope, or a payload
GarbageBody ==
  [json |-> FALSE, Status |-> "", Reason |-> "", PR |-> MalformedPR,
   SuccessAction |-> Nil]

ErrorBodies ==
  { [json |-> TRUE, Status |-> "ERROR", Reason |-> r, PR |-> MalformedPR,
     SuccessAction |-> Nil] : r \in Reasons }

PayloadBodies ==
  [json : {TRUE}, Status : {""}, Reason : {""}, PR : PaymentRequests,
   SuccessAction : SuccessActions]

HttpAnswers(bodies) ==
  { [neterr |-> TRUE, StatusCode |-> 0, body |-> GarbageBody] }
    \cup [neterr : {FALSE}, StatusCode : StatusCodes, body : bodies]

\* a slip: the network of the invoice not looked at
DecodeErrorAnyNet(pr, net) == IF ~pr.wellFormed THEN "invalid bech32 string" ELSE ""

\* zpay32.Decode: the error, "" for none
DecodeError(pr, net) ==
  IF ~pr.wellFormed THEN "invalid bech32 string"
  ELSE IF pr.hrp # net THEN "invoice not for current active network"
  ELSE ""

\* a slip: every status below 500 let through
StatusAcceptedBelow500(code) == code < 500

\* line 283
StatusAccepted(code) == code = 200 \/ code = 320

\* a slip: the comparison left out
DescriptionHashUnchecked(encoded, descriptionHash) == TRUE

\* line 372: the two sums are compared as hex strings
DescriptionHashMatches(encoded, descriptionHash) ==
  HexEncodeToString(Sha256(encoded)) = HexEncodeToString(descriptionHash)

\* a slip: an invoice for less than the amount let through
AmountAtMost(amount, milliSat) == milliSat <= amount

\* line 383
AmountMatches(amount, milliSat) == amount = milliSat

\* a slip: every tag let through
SupportedTagAny(t) == TRUE

\* lines 404-406
SupportedTag(t) == t = "message" \/ t = "url" \/ t = "aes"

ErrNoDescriptionHash == "Description hash not found in invoice."
ErrHashMismatch == "Invoice description hash does not match metadata."
ErrAmountMismatch == "Invoice amount does not match the amount set by user."
ErrUnknownSuccessAction(t) == "Unknown SuccessAction: " \o t
ErrHttpStatus(code) == "Error in http request: " \o StatusText(code)
ErrJson == "invalid character looking for beginning of value"
ErrTransport == "Get: connection refused"

\* data.SuccessAction built from the answer's successAction, lines 410-417
DataSuccessAction(sa) ==
  IF sa = Nil THEN Nil
  ELSE Some([Tag |-> sa[1].Tag, Description |-> sa[1].Description,
             Url |-> sa[1].URL, Message |-> sa[1].Message,
             Ciphertext |-> sa[1].Ciphertext, Iv |-> sa[1].IV])

\* data.LNUrlPayInfo, lines 424-432
PayInfoOf(params, metadata, body) ==
  [PaymentHash |-> body.PR.PaymentHash,
   SuccessAction |-> DataSuccessAction(body.SuccessAction),
   Comment |-> params.Comment,
   InvoiceDescription |-> MetadataDescription(metadata.data),
   Host |-> params.Host,
   Metadata |-> params.Metadata,
   Invoice |-> body.PR]

\* What FinishLNURLPay does with the answer, check by check in the order of
\* the code: [err, panic, parsed, info].  err is the error returned, "" for
\* none; panic is the nil dereference of line 383; parsed says the body was
\* given to the JSON decoder; info is the LNUrlPayInfo built.
PayOutcome(metadata, params, http) ==
  LET body == http.body
      fail(e, p) == [err |-> e, panic |-> FALSE, parsed |-> p, info |-> Nil]
  IN
  IF http.neterr THEN fail(ErrTransport, FALSE)
  ELSE IF ~StatusAccepted(http.StatusCode)
  THEN fail(ErrHttpStatus(http.StatusCode), FALSE)
  ELSE IF ~body.json THEN fail(ErrJson, TRUE)
  ELSE IF body.Status = "ERROR" THEN fail(body.Reason, TRUE)
  ELSE IF DecodeError(body.PR, activeParams) # ""
  THEN fail(DecodeError(body.PR, activeParams), TRUE)
  ELSE IF body.PR.DescriptionHash = Nil THEN fail(ErrNoDescriptionHash, TRUE)
  ELSE IF ~DescriptionHashMatches(metadata.encoded, body.PR.DescriptionHash[1])
  THEN fail(ErrHashMismatch, TRUE)
  ELSE IF body.PR.MilliSat = Nil
  THEN [err |-> "", panic |-> TRUE, parsed |-> TRUE, info |-> Nil]
  ELSE IF ~AmountMatches(params.Amount, body.PR.MilliSat[1])
  THEN fail(ErrAmountMismatch, TRUE)
  ELSE IF body.SuccessAction # Nil /\ ~SupportedTag(body.SuccessAction[1].Tag)
  THEN fail(ErrUnknownSuccessAction(body.SuccessAction[1].Tag), TRUE)
  ELSE [err |-> "", panic |-> FALSE, parsed |-> TRUE,
        info |-> Some(PayInfoOf(params, metadata, body))]

\* breezDB.SaveLNUrlPayInfo: the record is stored under its payment hash
SaveLNUrlPayInfo(db, info) == [db EXCEPT ![info.PaymentHash] = Some(info)]

\* line 433: the info is saved when a save is made; saveOk is whether the
\* store's save succeeds, and its error is not looked at
PayInfosAfter(db, out, saveOk) ==
  IF out.info # Nil /\ saveOk THEN SaveLNUrlPayInfo(db, out.info[1]) ELSE db

FinishLNURLPay(params, http, saveOk) ==
  LET out == PayOutcome(lnurlPayMetadata, params, http) IN
  /\ payInfos' = PayInfosAfter(payInfos, out, saveOk)
  /\ last' = [op |-> "FinishLNURLPay", params |-> params, http |-> http,
              saveOk |-> saveOk, err |-> out.err, panic |-> out.panic,
              parsed |-> out.parsed, info |-> out.info,
              encoded |-> lnurlPayMetadata.encoded]
  /\ UNCHANGED <<lnurlWithdrawing, lnurlPayMetadata, captured, authVars, sweepVars>>

(***************************************************************************)
(* One pay call: any resolutions, then one FinishLNURLPay whose arguments  *)
(* and answer are drawn at the start.                                      *)
(***************************************************************************)
PayCalls ==
  [params : PayParams, http : HttpAnswers(ErrorBodies \cup PayloadBodies \cup {GarbageBody}),
   saveOk : BOOLEAN]

InitLnurl ==
  /\ lnurlWithdrawing = ""
  /\ lnurlPayMetadata = [encoded |-> "", data |-> <<>>]
  /\ payInfos = [h \in PaymentHashes |-> Nil]
  /\ last = [op |-> "none"]
  /\ captured = {}
  /\ seedDB = Nil
  /\ backups = 0
  /\ authPc = "idle"
  /\ nextChildIndex = 0
  /\ InitSweepVars

InitPay ==
  /\ InitLnurl
  /\ linkKeys = {}
  /\ daemon = NewDaemon
  /\ pending \in { Some(c) : c \in PayCalls }

PayResolve ==
  \E t \in PayTargets : HandleLNURL(t) /\ UNCHANGED callerVars

PayFinish ==
  /\ pending # Nil
  /\ FinishLNURLPay(pending[1].params, pending[1].http, pending[1].saveOk)
  /\ pending' = Nil
  /\ UNCHANGED <<linkKeys, daemon>>

NextPay == PayResolve \/ PayFinish

SpecPay == InitPay /\ [][NextPay]_vars

(***************************************************************************)
(* Properties of one FinishLNURLPay call (SpecPay).                        *)
(***************************************************************************)
LastPay == last.op = "FinishLNURLPay"

\* the call returned a PayInfo and no error
PayReturned == LastPay /\ last.info # Nil

\* the answer got as far as a decoded invoice: the request was answered with
\* status 200 or 320, the body was JSON and no error envelope, and the payment
\* request decoded for the active network
GotInvoice ==
  /\ LastPay
  /\ ~last.http.neterr
  /\ last.http.StatusCode \in {200, 320}
  /\ last.http.body.json
  /\ last.http.body.Status # "ERROR"
  /\ last.http.body.PR.wellFormed
  /\ last.http.body.PR.hrp = activeParams

HashVerified ==
  /\ GotInvoice
  /\ last.http.body.PR.DescriptionHash = Some(Sha256(lnurlPayMetadata.encoded))

AmountVerified ==
  /\ HashVerified
  /\ last.http.body.PR.MilliSat = Some(last.params.Amount)

TagVerified ==
  /\ AmountVerified
  /\ \/ last.http.body.SuccessAction = Nil
     \/ last.http.body.SuccessAction[1].Tag \in {"message", "url", "aes"}

NothingPersisted == \A h \in PaymentHashes : payInfos[h] = Nil

\* C1: FinishLNURLPay returns a PayInfo only if the sha256 of the pending
\* encoded metadata equals the invoice's description hash byte for byte; with
\* any other description hash it fails with the hash mismatch error, and with
\* no description hash it fails with the missing description hash error.
C1_DescriptionHashChecked ==
  /\ PayReturned =>
       last.http.body.PR.DescriptionHash = Some(Sha256(lnurlPayMetadata.encoded))
  /\ GotInvoice /\ last.http.body.PR.DescriptionHash = Nil =>
       last.err = ErrNoDescriptionHash /\ last.info = Nil
  /\ GotInvoice /\ last.http.body.PR.DescriptionHash # Nil
       /\ last.http.body.PR.DescriptionHash[1] # Sha256(lnurlPayMetadata.encoded) =>
       last.err = ErrHashMismatch /\ last.info = Nil

C1_Witness ==
  /\ PayReturned
  /\ lnurlPayMetadata.encoded = EncodedHi
  /\ last.http.body.PR.DescriptionHash = Some(Sha256(EncodedHi))

\* the metadata strings captured when a pay variant with these params'
\* callback, host and metadata was resolved
CapturedFor(params) ==
  { c[2] : c \in { x \in captured :
                     /\ x[1].Callback = params.Callback
                     /\ x[1].Host = params.Host
                     /\ x[1].Metadata = params.Metadata } }

\* C2: when FinishLNURLPay is called with the params of a resolved pay
\* variant and verifies a description hash, the metadata string it hashes is
\* the one captured when that variant was resolved, whatever was resolved in
\* between.
C2_HashUsesCapturedMetadata ==
  GotInvoice /\ last.http.body.PR.DescriptionHash # Nil
    /\ CapturedFor(last.params) # {} =>
    last.encoded \in CapturedFor(last.params)

\* C3: FinishLNURLPay returns a PayInfo only if the invoice's amount in
\* millisatoshi equals params.Amount exactly, and an invoice that passed the
\* hash check and carries another amount fails with the amount mismatch error
\* (1000 sat: 1,000,000 msat is accepted, 999,000 msat is not).
C3_AmountChecked ==
  /\ PayReturned => last.http.body.PR.MilliSat = Some(last.params.Amount)
  /\ HashVerified /\ last.http.body.PR.MilliSat # Nil
       /\ last.http.body.PR.MilliSat[1] # last.params.Amount =>
       last.err = ErrAmountMismatch /\ last.info = Nil
  /\ HashVerified /\ last.http.body.PR.MilliSat = Some(last.params.Amount) =>
       last.err # ErrAmountMismatch

C3_Witness ==
  /\ LastPay
  /\ last.params.Amount = 1000 * 1000
  /\ last.http.body.PR.MilliSat = Some(999000)
  /\ last.err = ErrAmountMismatch

\* C5: a PayInfo is written only by a FinishLNURLPay that returns no error,
\* after the status, error envelope, invoice decoding, description hash,
\* amount and success action checks have passed; the error returned is that
\* of the first check, in this order, that fails; a call that returns an
\* error leaves the stored records as they were.
PayChecksInOrder ==
  LastPay =>
    /\ last.err = ErrJson => ~last.http.neterr /\ last.http.StatusCode \in {200, 320}
    /\ last.err \in Reasons =>
         ~last.http.neterr /\ last.http.StatusCode \in {200, 320} /\ last.http.body.json
    /\ last.err \in {ErrNoDescriptionHash, ErrHashMismatch} => GotInvoice
    /\ last.err = ErrAmountMismatch => HashVerified
    /\ last.err \in {"invalid bech32 string",
                      "invoice not for current active network"} =>
         /\ ~last.http.neterr /\ last.http.StatusCode \in {200, 320}
         /\ last.http.body.json /\ last.http.body.Status # "ERROR"
    /\ last.err \in { ErrUnknownSuccessAction(sa[1].Tag) : sa \in SuccessActions \ {Nil} } =>
         AmountVerified
    /\ PayReturned => TagVerified

PayWriteStep ==
  payInfos' # payInfos =>
    /\ last'.op = "FinishLNURLPay"
    /\ last'.err = ""
    /\ last'.info # Nil
    /\ TagVerified'

C5_PersistAfterChecks == [][PayWriteStep]_vars /\ []PayChecksInOrder

C5_Witness == PayReturned /\ ~NothingPersisted

\* C6: whenever FinishLNURLPay returns a PayInfo and no error, the store holds
\* under the invoice's payment hash a record with that invoice, host, comment,
\* metadata and success action.
C6_ReturnedInfoIsStored ==
  PayReturned =>
    /\ payInfos[last.http.body.PR.PaymentHash] # Nil
    /\ LET rec == payInfos[last.http.body.PR.PaymentHash][1] IN
       /\ rec.Invoice = last.http.body.PR
       /\ rec.Host = last.params.Host
       /\ rec.Comment = last.params.Comment
       /\ rec.Metadata = last.params.Metadata
       /\ rec.SuccessAction = DataSuccessAction(last.http.body.SuccessAction)

\* C8: an answer whose success action has a tag other than message, url and
\* aes fails with the unknown success action error and nothing is persisted,
\* though hash and amount passed; with one of the three tags, or with no
\* success action, the call returns a PayInfo.
C8_SuccessActionTagChecked ==
  /\ PayReturned /\ last.http.body.SuccessAction # Nil =>
       last.http.body.SuccessAction[1].Tag \in {"message", "url", "aes"}
  /\ AmountVerified /\ last.http.body.SuccessAction # Nil
       /\ last.http.body.SuccessAction[1].Tag \notin {"message", "url", "aes"} =>
       /\ last.err = ErrUnknownSuccessAction(last.http.body.SuccessAction[1].Tag)
       /\ last.info = Nil
       /\ NothingPersisted
  /\ TagVerified => PayReturned

C8_Witness ==
  /\ AmountVerified
  /\ last.http.body.SuccessAction # Nil
  /\ last.http.body.SuccessAction[1].Tag = "bonus"
  /\ last.err = "Unknown SuccessAction: bonus"

\* C9: a callback answer whose status is neither 200 nor 320 fails with the
\* http status error, its body is not given to the decoder, and nothing of it
\* is returned or persisted; status 200 and 320 pass this check.
C9_StatusChecked ==
  LastPay /\ ~last.http.neterr =>
    /\ last.http.StatusCode \notin {200, 320} =>
         /\ last.err = ErrHttpStatus(last.http.StatusCode)
         /\ ~last.parsed
         /\ last.info = Nil
         /\ NothingPersisted
    /\ last.http.StatusCode \in {200, 320} =>
         /\ last.parsed
         /\ last.err \notin { ErrHttpStatus(c) : c \in StatusCodes }

C9_Witness ==
  /\ LastPay
  /\ last.http.StatusCode = 404
  /\ last.http.body.json
  /\ last.http.body.PR.DescriptionHash = Some(Sha256(lnurlPayMetadata.encoded))
  /\ last.err = "Error in http request: 404 Not Found"

(***************************************************************************)
(* FinishLNURLAuth: the link key and the login request.                    *)
(***************************************************************************)
Seeds == {"s1", "s2"}
AuthHosts == {"a.example", "b.example"}

\* bip32.NewMasterKey: a key is the seed it comes from and its path
MasterKey(seed) == [seed |-> seed, path |-> <<>>]

\* lines 126-135: the first 16 bytes of HMAC-SHA256(master key, host), read
\* as four big-endian uint32, here reduced to the index space of the model
ChildIndexes(key, host) ==
  CASE key.seed = "s1" /\ host = "a.example" -> <<1, 0, 2, 3>>
    [] key.seed = "s1" /\ host = "b.example" -> <<2, 2, 0, 1>>
    [] key.seed = "s2" /\ host = "a.example" -> <<3, 1, 0, 2>>
    [] key.seed = "s2" /\ host = "b.example" -> <<0, 3, 3, 1>>

\* bip32: NewChildKey fails when the child it computes is no valid key; in
\* this model that is the child 1 of the key at s2/3
InvalidChild(key, index) ==
  key.seed = "s2" /\ key.path = <<3>> /\ index % IndexSpace = 1

NewChildKey(key, index) ==
  [seed |-> key.seed, path |-> Append(key.path, index % IndexSpace)]

\* lines 134-139 as far as they go without a failing NewChildKey: [ok, key,
\* index].  ok: the four children were derived and key is the last of them;
\* otherwise index is the child index whose derivation failed.
RECURSIVE DeriveFrom(_, _, _)
DeriveFrom(key, indexes, i) ==
  IF i > 4 THEN [ok |-> TRUE, key |-> key, index |-> 0]
  ELSE IF InvalidChild(key, indexes[i])
  THEN [ok |-> FALSE, key |-> key, index |-> indexes[i]]
  ELSE DeriveFrom(NewChildKey(key, indexes[i]), indexes, i + 1)

DeriveLinkKey(seed, host) ==
  DeriveFrom(MasterKey(seed), ChildIndexes(MasterKey(seed), host), 1)

\* a slip: the challenge hashed in place of the host
LinkKeyOfChallenge(authParams, seed) ==
  DeriveLinkKey(seed, IF authParams.K1 = "c1" THEN "a.example" ELSE "b.example")

\* lines 125-139: the link key of a call, from authParams.Host
LinkKeyOf(authParams, seed) == DeriveLinkKey(seed, authParams.Host)

RECURSIVE PathString(_)
PathString(path) ==
  IF path = <<>> THEN "" ELSE "/" \o HexDigits[Head(path) + 1] \o PathString(Tail(path))

\* the compressed public key of a key and a signature by it, as hex strings
PubKeyHex(key) == "02" \o key.seed \o PathString(key.path)

\* a slip: the challenge signed with the master key
SignatureHexOfMasterKey(key, k1) == "30" \o key.seed \o ":" \o k1

SignatureHex(key, k1) == "30" \o key.seed \o PathString(key.path) \o ":" \o k1

\* hex.DecodeString succeeds on an even number of hex digits
IsHex(k1) == k1 \in {"c1", "d2"}

AuthParams ==
  [Tag : {"login"},
   Callback : {"https://a.example/login", "https://a.example/login?tag=login&k1=c1"},
   K1 : {"c1", "zz"}, Host : AuthHosts, Jwt : BOOLEAN]

\* the callback's answer to the login request
AuthBodies ==
  { [json |-> FALSE, Status |-> "", Reason |-> "", Token |-> ""],
    [json |-> TRUE, Status |-> "OK", Reason |-> "", Token |-> "jwt1"] }
    \cup { [json |-> TRUE, Status |-> "ERROR", Reason |-> r, Token |-> ""] :
             r \in Reasons }

AuthAnswers ==
  { [neterr |-> TRUE, StatusCode |-> 0, body |-> CHOOSE b \in AuthBodies : ~b.json] }
    \cup [neterr : {FALSE}, StatusCode : {200, 404}, body : AuthBodies]

\* lines 162-172: the URL requested
AuthRequestUrl(params, key) ==
  LET url == UrlParse(params.Callback)
      q1 == QueryAdd(url.query, "key", PubKeyHex(key))
      q2 == QueryAdd(q1, "sig", SignatureHex(key, params.K1))
      q3 == IF params.Jwt THEN QueryAdd(q2, "jwt", "true") ELSE q2
  IN UrlString([base |-> url.base, query |-> q3])

\* lines 143-189, once the link key is there: [err, token, url]
AuthOutcome(params, key, http) ==
  IF ~IsHex(params.K1)
  THEN [err |-> "failed to decode k1 challenge", token |-> "", url |-> ""]
  ELSE LET url == AuthRequestUrl(params, key) IN
       IF http.neterr THEN [err |-> ErrTransport, token |-> "", url |-> url]
       ELSE IF ~http.body.json THEN [err |-> ErrJson, token |-> "", url |-> url]
       ELSE IF http.body.Status = "ERROR"
       THEN [err |-> http.body.Reason, token |-> "", url |-> url]
       ELSE [err |-> "", token |-> http.body.Token, url |-> url]

\* a slip: a backup requested by every call
NeedsBackupAlways(db) == TRUE

\* getLNURLAuthKey, lines 214-224: needsBackup is set by the callback that
\* FetchLNURLAuthKey runs to create the seed the store does not hold
NeedsBackup(db) == db = Nil

\* FinishLNURLAuth.  fetchOk: breezDB.FetchLNURLAuthKey succeeds; newSeed: the
\* seed bip32.NewSeed draws when the store has none.  When a NewChildKey
\* fails the call enters the loop of lines 136-138, whose body increments
\* nextChildIndex and whose condition reads the err that no statement of the
\* loop assigns.
FinishLNURLAuth(params, fetchOk, newSeed, http) ==
  LET seed == IF seedDB = Nil THEN newSeed ELSE seedDB[1]
      d == LinkKeyOf(params, seed)
      out == AuthOutcome(params, d.key, http)
  IN
  /\ authPc = "idle"
  /\ IF ~fetchOk
     THEN /\ last' = [op |-> "FinishLNURLAuth", params |-> params, http |-> http,
                      err |-> "failed to fetch lnurl key", token |-> "",
                      url |-> "", key |-> Nil, returned |-> TRUE]
          /\ UNCHANGED authVars
     ELSE /\ seedDB' = Some(seed)
          /\ backups' = IF NeedsBackup(seedDB) THEN backups + 1 ELSE backups
          /\ IF d.ok
             THEN /\ last' = [op |-> "FinishLNURLAuth", params |-> params,
                              http |-> http, err |-> out.err, token |-> out.token,
                              url |-> out.url, key |-> Some(d.key),
                              returned |-> TRUE]
                  /\ UNCHANGED <<authPc, nextChildIndex>>
             ELSE /\ last' = [op |-> "FinishLNURLAuth", params |-> params,
                              http |-> http, err |-> "", token |-> "",
                              url |-> "", key |-> Nil, returned |-> FALSE]
                  /\ authPc' = "loop"
                  /\ nextChildIndex' = d.index
  /\ UNCHANGED <<lnurlWithdrawing, lnurlPayMetadata, payInfos, captured, sweepVars>>

\* one more turn of the loop of lines 136-138: err != nil, nextChildIndex++
AuthLoop ==
  /\ authPc = "loop"
  /\ nextChildIndex' = (nextChildIndex + 1) % IndexSpace
  /\ UNCHANGED <<lnurlWithdrawing, lnurlPayMetadata, payInfos, captured, last,
                 seedDB, backups, authPc, sweepVars>>

(***************************************************************************)
(* FinishLNURLWithdraw.                                                    *)
(***************************************************************************)
Bolt11s == {"lnbc1w"}

WithdrawBodies ==
  { [json |-> FALSE, Status |-> "", Reason |-> ""],
    [json |-> TRUE, Status |-> "OK", Reason |-> ""] }
    \cup { [json |-> TRUE, Status |-> "ERROR", Reason |-> r] : r \in Reasons }

WithdrawAnswers ==
  { [neterr |-> TRUE, StatusCode |-> 0, body |-> CHOOSE b \in WithdrawBodies : ~b.json] }
    \cup [neterr : {FALSE}, StatusCode : {200, 404}, body : WithdrawBodies]

\* line 195
WithdrawRequestUrl(callback, bolt11) == callback \o "&pr=" \o bolt11

\* a slip: the envelope's status returned in place of its reason
WithdrawErrorStatus(http) ==
  IF http.neterr THEN ErrTransport
  ELSE IF ~http.body.json THEN ErrJson
  ELSE IF http.body.Status = "ERROR" THEN http.body.Status
  ELSE ""

WithdrawError(http) ==
  IF http.neterr THEN ErrTransport
  ELSE IF ~http.body.json THEN ErrJson
  ELSE IF http.body.Status = "ERROR" THEN http.body.Reason
  ELSE ""

FinishLNURLWithdraw(bolt11, http) ==
  /\ authPc = "idle"
  /\ last' = [op |-> "FinishLNURLWithdraw", bolt11 |-> bolt11, http |-> http,
              url |-> WithdrawRequestUrl(lnurlWithdrawing, bolt11),
              err |-> WithdrawError(http)]
  /\ UNCHANGED <<lnurlWithdrawing, lnurlPayMetadata, payInfos, captured, authVars,
                 sweepVars>>

(***************************************************************************)
(* FinishLNURLAuth alone, called again and again.                          *)
(***************************************************************************)
AuthCall ==
  \E params \in AuthParams, fetchOk \in BOOLEAN, http \in AuthAnswers :
    \E newSeed \in (IF seedDB = Nil THEN Seeds ELSE {seedDB[1]}) :
      FinishLNURLAuth(params, fetchOk, newSeed, http) /\ UNCHANGED callerVars

AuthLoopTurn == AuthLoop /\ UNCHANGED callerVars

InitAuth ==
  /\ InitLnurl
  /\ pending = Nil
  /\ linkKeys = {}
  /\ daemon = NewDaemon

NextAuth == AuthCall \/ AuthLoopTurn

SpecAuth == InitAuth /\ [][NextAuth]_vars

\* a goroutine inside the loop of line 136 keeps taking turns of it
SpecAuthFair == SpecAuth /\ WF_vars(AuthLoopTurn)

(***************************************************************************)
(* The LNURL client under any sequence of calls, one call at a time, with  *)
(* a few answers of each kind.                                             *)
(***************************************************************************)
SeqPayParams == { ParamsOf(LNUrlResponse(t), 1000000, "thx") : t \in PayTargets }

SeqPayloadBodies ==
  { [json |-> TRUE, Status |-> "", Reason |-> "",
     PR |-> [hrp |-> "lnbc", wellFormed |-> TRUE, DescriptionHash |-> Some(Sha256(e)),
             MilliSat |-> Some(1000000), PaymentHash |-> "ph1"],
     SuccessAction |-> Some([Tag |-> "aes", Description |-> "code", URL |-> "",
                             Message |-> "", Ciphertext |-> "c1", IV |-> "iv1"])] :
      e \in {"", EncodedHi, EncodedYo} }

SeqPayAnswers ==
  HttpAnswers(ErrorBodies)
    \cup [neterr : {FALSE}, StatusCode : {200}, body : SeqPayloadBodies]

SeqAuthParams ==
  { [Tag |-> "login", Callback |-> "https://a.example/login", K1 |-> "c1",
     Host |-> h, Jwt |-> (h = "b.example")] : h \in AuthHosts }

SeqAuthAnswers ==
  [neterr : {FALSE}, StatusCode : {200}, body : { b \in AuthBodies : b.json }]
    \cup [neterr : {FALSE}, StatusCode : {404},
          body : { b \in AuthBodies : b.Reason = "rate limited" }]

SeqWithdrawAnswers ==
  { a \in WithdrawAnswers : a.neterr }
    \cup [neterr : {FALSE}, StatusCode : {200}, body : { b \in WithdrawBodies : b.json }]
    \cup [neterr : {FALSE}, StatusCode : {404},
          body : { b \in WithdrawBodies : b.Reason = "rate limited" }]

InitSeq ==
  /\ InitLnurl
  /\ pending = Nil
  /\ linkKeys = {}
  /\ daemon = NewDaemon

SeqHandleLNURL ==
  \E t \in LnurlTargets : HandleLNURL(t) /\ UNCHANGED callerVars

SeqFinishLNURLAuth ==
  \E params \in SeqAuthParams, http \in SeqAuthAnswers :
    FinishLNURLAuth(params, TRUE, "s1", http) /\ UNCHANGED callerVars

SeqFinishLNURLWithdraw ==
  \E bolt11 \in Bolt11s, http \in SeqWithdrawAnswers :
    FinishLNURLWithdraw(bolt11, http) /\ UNCHANGED callerVars

SeqFinishLNURLPay ==
  \E params \in SeqPayParams, http \in SeqPayAnswers :
    FinishLNURLPay(params, http, TRUE) /\ UNCHANGED callerVars

NextSeq ==
  \/ SeqHandleLNURL
  \/ SeqFinishLNURLPay
  \/ SeqFinishLNURLWithdraw
  \/ SeqFinishLNURLAuth

SpecSeq == InitSeq /\ [][NextSeq]_vars

(***************************************************************************)
(* Properties of sequences of calls (SpecSeq, SpecAuthFair).               *)
(***************************************************************************)
\* the call got from the service a JSON body whose status is "ERROR"
GotErrorEnvelope(l) ==
  CASE l.op = "HandleLNURL" -> l.target.kind = "status_error"
    [] l.op = "FinishLNURLAuth" ->
         /\ l.returned /\ l.url # ""
         /\ ~l.http.neterr /\ l.http.body.json /\ l.http.body.Status = "ERROR"
    [] l.op \in {"FinishLNURLWithdraw", "FinishLNURLPay"} ->
         ~l.http.neterr /\ l.http.body.json /\ l.http.body.Status = "ERROR"
    [] OTHER -> FALSE

EnvelopeReason(l) ==
  IF l.op = "HandleLNURL" THEN l.target.reason ELSE l.http.body.Reason

\* the call returned nothing but its error
NoResult(l) ==
  CASE l.op = "HandleLNURL" -> l.resp = Nil
    [] l.op = "FinishLNURLAuth" -> l.token = ""
    [] l.op = "FinishLNURLPay" -> l.info = Nil
    [] OTHER -> TRUE

SlotsUnchanged ==
  /\ lnurlWithdrawing' = lnurlWithdrawing
  /\ lnurlPayMetadata' = lnurlPayMetadata

\* C7, as claimed: whenever the service's JSON response has status "ERROR"
\* with reason r, the call returns exactly r as its error and no result, and
\* nothing is persisted.
C7_ErrorEnvelopeAsClaimed ==
  [][GotErrorEnvelope(last') =>
       /\ last'.err = EnvelopeReason(last')
       /\ NoResult(last')
       /\ payInfos' = payInfos
       /\ seedDB' = seedDB]_vars

\* C7, amended: HandleLNURL, FinishLNURLAuth and FinishLNURLWithdraw return
\* exactly r, and so does FinishLNURLPay when the answer's HTTP status is 200
\* or 320 (under any other status it returns the http status error); the
\* call returns no result, writes no PayInfo and leaves both pending slots as
\* they were.
C7_ErrorEnvelope ==
  [][GotErrorEnvelope(last') =>
       /\ IF last'.op = "FinishLNURLPay" /\ last'.http.StatusCode \notin {200, 320}
          THEN last'.err = ErrHttpStatus(last'.http.StatusCode)
          ELSE last'.err = EnvelopeReason(last')
       /\ NoResult(last')
       /\ payInfos' = payInfos
       /\ SlotsUnchanged]_vars

C7_Witness ==
  /\ last.op = "FinishLNURLAuth"
  /\ GotErrorEnvelope(last)
  /\ last.http.body.Reason = "rate limited"
  /\ last.err = "rate limited"
  /\ seedDB # Nil

\* C10: the derivation of the link key always comes to an end: a call that
\* met an invalid child index returns, with the key or with an error.
C10_LinkKeyDerivationTerminates == (authPc = "loop") ~> (authPc = "idle")

(***************************************************************************)
(* The sweep planner, with the wallet changing under it.                   *)
(***************************************************************************)
InitSweep ==
  /\ InitLnurl
  /\ pending = Nil
  /\ linkKeys = {}
  /\ daemon = NewDaemon

NextSweep == SweepBegin \/ SweepNextTier \/ WalletChanges

SpecSweep == InitSweep /\ [][NextSweep]_vars

\* the transactions made so far by the running call, and those returned by
\* the call before
MadeTransactions ==
  { td[t][1] : t \in { x \in DOMAIN td : td[x] # Nil } }
    \cup (IF last.op = "SweepAllCoinsTransactions" /\ last.result # Nil
          THEN { last.result[1].Transactions[t][1] :
                   t \in { x \in DOMAIN last.result[1].Transactions :
                             last.result[1].Transactions[x] # Nil } }
          ELSE {})

\* C4: for every transaction of every fee tier, Fees is the sum of the
\* values of its inputs minus the sum of the values of its outputs, and is
\* more than zero.
C4_FeesAreInputsMinusOutputs ==
  \A d \in MadeTransactions :
    /\ d.Fees = SumAmounts(d.Tx.inputs) - SumValues(d.Tx.outputs)
    /\ d.Fees > 0

C4_Witness ==
  /\ last.op = "SweepAllCoinsTransactions"
  /\ last.result # Nil
  /\ last.result[1].Transactions[2] # Nil
  /\ last.result[1].Transactions[25] # Nil
  /\ last.result[1].Transactions[2][1].Fees > last.result[1].Transactions[25][1].Fees

(***************************************************************************)
(* Logins with other calls in between (SpecLink): every link key derived   *)
(* is kept in linkKeys with the seed of the store and the host.            *)
(***************************************************************************)
LinkAuthParams ==
  [Tag : {"login"}, Callback : {"https://a.example/login", "https://b.example/auth"},
   K1 : {"c1", "d2"}, Host : AuthHosts, Jwt : {FALSE}]

LinkAuthAnswers ==
  [neterr : {FALSE}, StatusCode : {200},
   body : { b \in AuthBodies : b.json /\ b.Reason # "denied" }]

LinkFinishLNURLAuth ==
  \E params \in LinkAuthParams, fetchOk \in BOOLEAN, http \in LinkAuthAnswers :
    \E newSeed \in (IF seedDB = Nil THEN Seeds ELSE {seedDB[1]}) :
      /\ FinishLNURLAuth(params, fetchOk, newSeed, http)
      /\ linkKeys' = IF last'.key # Nil
                     THEN linkKeys \cup {[seed |-> seedDB'[1], host |-> params.Host,
                                          key |-> last'.key[1],
                                          pub |-> PubKeyHex(last'.key[1])]}
                     ELSE linkKeys
      /\ UNCHANGED <<pending, daemon>>

LinkHandleLNURL ==
  \E t \in WithdrawTargets \cup AuthTargets : HandleLNURL(t) /\ UNCHANGED callerVars

LinkFinishLNURLWithdraw ==
  \E http \in { a \in WithdrawAnswers : a.neterr } :
    FinishLNURLWithdraw("lnbc1w", http) /\ UNCHANGED callerVars

InitLink ==
  /\ InitLnurl
  /\ pending = Nil
  /\ linkKeys = {}
  /\ daemon = NewDaemon

NextLink ==
  \/ LinkFinishLNURLAuth
  \/ LinkHandleLNURL
  \/ LinkFinishLNURLWithdraw
  \/ AuthLoopTurn

SpecLink == InitLink /\ [][NextLink]_vars

\* C11: any two logins made with the same stored seed and for the same host
\* derived the same key pair, whatever the challenge, the callback and the
\* calls in between.
C11_LinkKeyDeterministic ==
  \A a, b \in linkKeys :
    a.seed = b.seed /\ a.host = b.host => a.key = b.key /\ a.pub = b.pub

\* two logins for one host with two challenges at two callbacks, and another
\* call after them
C11_Witness ==
  /\ last.op = "FinishLNURLAuth"
  /\ last.key # Nil
  /\ last.params.K1 = "d2"
  /\ last.params.Callback = "https://b.example/auth"
  /\ [seed |-> seedDB[1], host |-> last.params.Host, key |-> last.key[1],
      pub |-> PubKeyHex(last.key[1])] \in linkKeys
  /\ lnurlWithdrawing # ""
  /\ Cardinality(linkKeys) = 2

(***************************************************************************)
(* More properties of the sweep planner (SpecSweep).                       *)
(***************************************************************************)
LastSweep == last.op = "SweepAllCoinsTransactions"

\* C12: a destination that does not decode for the active network, is not
\* for the active network, or hex-decodes to a valid public key is refused
\* with an error and no result, before any remote call is made.
C12_BadAddressRejectedFirst ==
  LastSweep /\ (~last.address.decodes \/ ~last.address.forNet \/ last.address.pubkey) =>
    /\ last.err # ""
    /\ last.result = Nil
    /\ last.calls = {}
    /\ sweepPc = "idle"

C12_Witness ==
  /\ LastSweep
  /\ last.address.decodes /\ last.address.forNet /\ last.address.pubkey
  /\ last.err = "cannot send coins to pubkeys"
  /\ last.calls = {}
  /\ walletUtxos # {}

\* the call has returned from its loop over the tiers, or during it
SweepReturnedFromTiers == LastSweep /\ sweepPc = "idle" /\ last.outcomes # <<>>

\* C13: a tier whose builder fails with a rule error is left out and the
\* tiers after it are still evaluated; any other failure of a tier ends the
\* call with an error and no result, whatever the tiers before it gave; the
\* keys of the map returned are the targets whose transaction was built.
C13_TierErrors ==
  SweepReturnedFromTiers =>
    LET n == Len(last.outcomes)
        failed == { i \in 1..n : last.outcomes[i] \notin {"built", "RuleError"} }
    IN
    /\ failed # {} => last.err # "" /\ last.result = Nil /\ failed = {n}
    /\ failed = {} =>
         /\ n = Len(targets)
         /\ last.err = "" /\ last.result # Nil
         /\ \A i \in 1..n :
              (last.result[1].Transactions[targets[i]] # Nil)
                <=> (last.outcomes[i] = "built")

\* a rule error at the first tier, a transaction at the second, and a
\* signer that fails at the third
C13_Witness ==
  /\ SweepReturnedFromTiers
  /\ last.outcomes = <<"RuleError", "built", "srpc.ComputeInputScript">>
  /\ last.result = Nil

\* C14: the Amt returned is the total input value of every transaction of
\* the map returned, also when the wallet's outputs change between the
\* listings of the tiers.
C14_AmtCommonToAllTiers ==
  LastSweep /\ last.result # Nil =>
    \A t \in DOMAIN last.result[1].Transactions :
      last.result[1].Transactions[t] # Nil =>
        SumAmounts(last.result[1].Transactions[t][1].Tx.inputs) = last.result[1].Amt

(***************************************************************************)
(* An rpcUtxoSource of its own, listed again and again, beside the planner *)
(* (SpecRus).                                                              *)
(***************************************************************************)
RusNew ==
  /\ sweepPc = "idle"
  /\ rus' = NewRpcUtxoSource
  /\ last' = [op |-> "NewRpcUtxoSource"]
  /\ UNCHANGED <<walletUtxos, sweepPc, tierIdx, td, totalAmount, lnurlState>>

RusList(rpcOk) ==
    LET r == ListUnspentWitness(rus, rpcOk, walletUtxos) IN
    /\ sweepPc = "idle"
    /\ rus' = [totalAmount |-> r.totalAmount]
    /\ last' = [op |-> "ListUnspentWitness", err |-> r.err, utxos |-> r.utxos,
                before |-> rus.totalAmount, records |-> ListUnspent(walletUtxos)]
    /\ UNCHANGED <<walletUtxos, sweepPc, tierIdx, td, totalAmount, lnurlState>>

NextRus == RusNew \/ (\E rpcOk \in BOOLEAN : RusList(rpcOk)) \/ NextSweep

SpecRus == InitSweep /\ [][NextRus]_vars

\* the tier just evaluated by the running call built a transaction
TierJustBuilt ==
  /\ sweepPc = "tiers"
  /\ last.outcomes # <<>>
  /\ last.outcomes[Len(last.outcomes)] = "built"

\* the fee tier just evaluated used a source made for it: the source's
\* total is the input value of the tier's transaction, and its fee is that
\* total less the outputs
TierUsesOwnSource ==
  TierJustBuilt =>
    LET d == td[targets[tierIdx - 1]][1] IN
    /\ rus.totalAmount = SumAmounts(d.Tx.inputs)
    /\ d.Fees = rus.totalAmount - SumValues(d.Tx.outputs)

\* C15, as claimed: after any list call the source's total is the sum of
\* the values of the outputs that call returned.
C15_TotalIsOfLastListingAsClaimed ==
  /\ TierUsesOwnSource
  /\ last.op = "ListUnspentWitness" => rus.totalAmount = SumAmounts(last.utxos)

\* C15, amended: each tier uses a source made for it; after a list call that
\* succeeds the source's total is the sum of the values of the outputs it
\* returned, whatever the calls before; a call whose ListUnspent fails leaves
\* the total as it was, and a call that meets a record of another address
\* type leaves the sum of the records before it.
C15_TotalIsOfLastListing ==
  /\ TierUsesOwnSource
  /\ last.op = "ListUnspentWitness" =>
       /\ last.err = "" => rus.totalAmount = SumAmounts(last.utxos)
       /\ last.err = "u.lightningClient.ListUnspent" =>
            rus.totalAmount = last.before /\ last.utxos = {}
       /\ last.err = "invalid utxo address type" =>
            /\ last.utxos = {}
            /\ \E k \in 1..Len(last.records) :
                 /\ last.records[k].AddressType = "UNKNOWN"
                 /\ \A i \in 1..(k - 1) : last.records[i].AddressType # "UNKNOWN"
                 /\ rus.totalAmount =
                      SumAmounts({ last.records[i] : i \in 1..(k - 1) })

\* a second listing by one source, of a wallet that changed in between
C15_Witness ==
  /\ last.op = "ListUnspentWitness"
  /\ last.err = ""
  /\ last.before = 400
  /\ rus.totalAmount = 60000
  /\ last.utxos # {}

(***************************************************************************)
(* DecryptLNUrlPayMessage, after pay flows that completed (SpecDecrypt).   *)
(***************************************************************************)
\* a slip: the content returned whatever the key
DecipherAnyKey(sa, preimage) == [err |-> "", content |-> "code 42"]

\* lnurl.SuccessAction.Decipher (go-lnurl), line 459: AES-CBC with the
\* preimage as the key and the action's IV; it does not look at the tag.  The
\* ciphertext c1 under iv1 is "code 42" sealed with the preimage p1.
Decipher(sa, preimage) ==
  IF sa.Ciphertext = "c1" /\ sa.IV = "iv1" /\ preimage = "p1"
  THEN [err |-> "", content |-> "code 42"]
  ELSE [err |-> "cipher: message authentication failed", content |-> ""]

\* lines 440-471 up to the save: [err, panic, message, info].  panic: the
\* dereference of a nil info.SuccessAction at line 448; info: the record with
\* the message deciphered, to be saved.
DecryptOutcome(db, paymentHash, preimage, fetchOk) ==
  LET info == db[paymentHash]
      out(e, p) == [err |-> e, panic |-> p, message |-> "", info |-> Nil]
  IN
  IF ~fetchOk THEN out("Unable to get LNUrl-Pay info from database", FALSE)
  ELSE IF info = Nil
  THEN out("DecryptLNUrlPayMessage: could not find lnUrlPayInfo with given paymentHash.",
           FALSE)
  ELSE IF info[1].SuccessAction = Nil THEN out("", TRUE)
  ELSE LET dsa == info[1].SuccessAction[1]
           sa == [Tag |-> dsa.Tag, Description |-> dsa.Description, URL |-> dsa.Url,
                  Message |-> dsa.Message, Ciphertext |-> dsa.Ciphertext,
                  IV |-> dsa.Iv]
           d == Decipher(sa, preimage)
       IN
       IF sa.Ciphertext = "" THEN out("LNUrl-Pay CipherText is empty.", FALSE)
       ELSE IF d.err # "" THEN out("Could not decrypt message", FALSE)
       ELSE [err |-> "", panic |-> FALSE, message |-> d.content,
             info |-> Some([info[1] EXCEPT
                              !.SuccessAction = Some([dsa EXCEPT !.Message = d.content])])]

\* DecryptLNUrlPayMessage.  fetchOk, saveOk: the store's FetchLNUrlPayInfo and
\* SaveLNUrlPayInfo succeed.
DecryptLNUrlPayMessage(paymentHash, preimage, fetchOk, saveOk) ==
  LET out == DecryptOutcome(payInfos, paymentHash, preimage, fetchOk)
      saved == out.info # Nil /\ saveOk
  IN
  /\ authPc = "idle"
  /\ payInfos' = IF saved THEN SaveLNUrlPayInfo(payInfos, out.info[1]) ELSE payInfos
  /\ last' = [op |-> "DecryptLNUrlPayMessage", paymentHash |-> paymentHash,
              preimage |-> preimage, before |-> payInfos[paymentHash],
              panic |-> out.panic,
              err |-> IF out.info # Nil /\ ~saveOk
                      THEN "Could not save deciphered message" ELSE out.err,
              message |-> IF saved THEN out.message ELSE ""]
  /\ UNCHANGED <<lnurlWithdrawing, lnurlPayMetadata, captured, authVars, sweepVars>>

DecryptCalls ==
  \E paymentHash \in PaymentHashes, preimage \in {"p1", "p2"}, fetchOk \in BOOLEAN,
     saveOk \in BOOLEAN :
    DecryptLNUrlPayMessage(paymentHash, preimage, fetchOk, saveOk)
      /\ UNCHANGED callerVars

\* pay flows that complete: the service's invoice commits to the metadata and
\* to the amount, with no success action, a message, a sealed message, or a
\* message that carries a ciphertext as well
DecryptPayFinish ==
  \E t \in { x \in PayTargets : x.host = "a.example" }, comment \in {"thx"},
     ph \in PaymentHashes,
     sa \in { x \in SuccessActions : x = Nil \/ x[1].Tag \in {"message", "aes"} }
              \cup { Some([Tag |-> "message", Description |-> "", URL |-> "",
                           Message |-> "thanks", Ciphertext |-> "c1", IV |-> "iv1"]) } :
    /\ lnurlPayMetadata.encoded = t.EncodedMetadata
    /\ FinishLNURLPay(
         ParamsOf(LNUrlResponse(t), 1000000, comment),
         [neterr |-> FALSE, StatusCode |-> 200,
          body |-> [json |-> TRUE, Status |-> "", Reason |-> "",
                    PR |-> [hrp |-> "lnbc", wellFormed |-> TRUE,
                            DescriptionHash |-> Some(Sha256(t.EncodedMetadata)),
                            MilliSat |-> Some(1000000), PaymentHash |-> ph],
                    SuccessAction |-> sa]],
         TRUE)
    /\ UNCHANGED callerVars

NextDecrypt == PayResolve \/ DecryptPayFinish \/ DecryptCalls

SpecDecrypt == InitSeq /\ [][NextDecrypt]_vars

\* the record a DecryptLNUrlPayMessage call found carries a ciphertext
FoundCiphertext(l) ==
  /\ l.op = "DecryptLNUrlPayMessage"
  /\ l.before # Nil
  /\ l.before[1].SuccessAction # Nil
  /\ l.before[1].SuccessAction[1].Ciphertext # ""

\* the preimage of the call is the key the record's ciphertext was sealed with
RightPreimage(l) ==
  /\ l.before[1].SuccessAction[1].Ciphertext = "c1"
  /\ l.before[1].SuccessAction[1].Iv = "iv1"
  /\ l.preimage = "p1"

C17_NotFoundOrNotDecryptable ==
  last.op = "DecryptLNUrlPayMessage"
    /\ last.err # "Unable to get LNUrl-Pay info from database" =>
    /\ last.before = Nil =>
         last.err = "DecryptLNUrlPayMessage: could not find lnUrlPayInfo with given paymentHash."
    /\ last.before # Nil
         /\ ~(FoundCiphertext(last) /\ last.before[1].SuccessAction[1].Tag = "aes") =>
         /\ ~last.panic
         /\ last.err # ""
         /\ payInfos[last.paymentHash] = last.before

\* the record was deciphered before: its message is the content of its
\* ciphertext
Deciphered(info) ==
  /\ info # Nil
  /\ info[1].SuccessAction # Nil
  /\ info[1].SuccessAction[1].Ciphertext = "c1"
  /\ info[1].SuccessAction[1].Message = "code 42"

\* C18: DecryptLNUrlPayMessage on a record deciphered before changes nothing
\* and returns the stored message or an error, and a pay flow that completes
\* does not write over a record that is there.
C18_RecordWrittenOnce ==
  [][/\ last'.op = "DecryptLNUrlPayMessage" /\ Deciphered(last'.before) =>
          /\ payInfos' = payInfos
          /\ last'.err = "" => last'.message = last'.before[1].SuccessAction[1].Message
     /\ last'.op = "FinishLNURLPay" =>
          \A h \in PaymentHashes : payInfos[h] # Nil => payInfos'[h] = payInfos[h]]_vars

(***************************************************************************)
(* The pending withdraw slot (SpecSeq).                                    *)
(***************************************************************************)
\* C19: the pending withdraw is one slot that a resolved Withdraw variant
\* sets to its callback with k1 in the query and that any later resolution,
\* of any variant, overwrites, so that FinishLNURLWithdraw does not reach the
\* earlier callback after it; FinishLNURLWithdraw requests the slot's
\* callback with "&pr=" and the invoice appended.
C19_WithdrawSlotOverwritten ==
  [][/\ last'.op = "HandleLNURL" /\ last'.err = "" =>
          IF last'.target.kind = "withdrawRequest"
          THEN lnurlWithdrawing' \in {"https://w.example/cb?k1=aa",
                                      "https://v.example/cb?k1=bb&tag=x"}
          ELSE lnurlWithdrawing # "" => lnurlWithdrawing' # lnurlWithdrawing
     /\ last'.op = "FinishLNURLWithdraw" =>
          last'.url = lnurlWithdrawing \o "&pr=" \o last'.bolt11]_vars

(***************************************************************************)
(* SpecBounds: withdraw lnurls whose service picks the msat bounds, from   *)
(* zero to just beyond the largest integer float64 holds exactly.          *)
(***************************************************************************)
MsatBounds ==
  {0, 1, 999, 1000, 1001, 1500, 2000500,
   Pow2(MantissaBits) - 1, Pow2(MantissaBits) + 1,
   1000 * (Pow2(MantissaBits) \div 1000) + 999,
   1000 * (Pow2(MantissaBits) \div 1000) + 1001,
   1000 * (Pow2(MantissaBits) \div 1000) + 1500}

BoundsHandleLNURL ==
  \E min \in MsatBounds, max \in MsatBounds :
    /\ HandleLNURL([kind |-> "withdrawRequest",
                    CallbackURL |-> [base |-> "https://w.example/cb",
                                     query |-> <<>>],
                    K1 |-> "aa", MinWithdrawable |-> min,
                    MaxWithdrawable |-> max, DefaultDescription |-> "w"])
    /\ UNCHANGED callerVars

SpecBounds == InitSeq /\ [][BoundsHandleLNURL]_vars

\* C20: a Withdraw resolution reports MinAmount = ceil(minWithdrawable / 1000)
\* and MaxAmount = floor(maxWithdrawable / 1000), so every satoshi amount s
\* with MinAmount <= s <= MaxAmount has minWithdrawable <= 1000 * s <=
\* maxWithdrawable.
C20_SatBoundsWithinMsatBounds ==
  last.op = "HandleLNURL" /\ last.err = "" =>
    LET t == last.target
        r == last.resp[1]
    IN  /\ r.MinAmount = (t.MinWithdrawable + 999) \div 1000
        /\ r.MaxAmount = t.MaxWithdrawable \div 1000
        /\ \A s \in r.MinAmount .. r.MaxAmount :
             /\ t.MinWithdrawable <= 1000 * s
             /\ 1000 * s <= t.MaxWithdrawable

(***************************************************************************)
(* The seed of the link keys and its backup (SpecLink).                    *)
(***************************************************************************)
\* C21: link-key derivation requests a backup exactly when the call created
\* the seed: a FinishLNURLAuth that fetches from an empty store creates the
\* seed and requests one backup, every later call keeps the stored seed and
\* requests none.
C21_BackupOnSeedCreation ==
  [][/\ backups' = IF seedDB = Nil /\ seedDB' # Nil THEN backups + 1 ELSE backups
     /\ seedDB # Nil => seedDB' = seedDB
     /\ (/\ seedDB = Nil
         /\ last'.op = "FinishLNURLAuth"
         /\ last' # last
         /\ last'.err # "failed to fetch lnurl key") => seedDB' # Nil]_vars

\* two logins that derived two link keys from the one seed, one backup
C21_Witness ==
  /\ last.op = "FinishLNURLAuth"
  /\ Cardinality(linkKeys) >= 2
  /\ seedDB # Nil
  /\ backups = 1

(***************************************************************************)
(* The adapters of the remote wallet (SpecRemote): rpcSigner and           *)
(* PublishTransaction.  A call is one step; last keeps the descriptor the  *)
(* caller passed (before), the descriptor as the call left it (signDesc)   *)
(* and what the call returned.  panic: the call did not return.            *)
(***************************************************************************)
\* a chainhash.Hash, or the bytes of one in an rpc answer: n bytes c
HashOfLen(c, n) == [i \in 1 .. n |-> c]

\* the three midstates of a descriptor, and of an answer of the signer
TxSigHashes(cs, ns) ==
  [HashPrevOuts |-> HashOfLen(cs[1], ns[1]),
   HashSequence |-> HashOfLen(cs[2], ns[2]),
   HashOutputs |-> HashOfLen(cs[3], ns[3])]

SignDescriptors ==
  { [InputIndex |-> i, HashType |-> 1,
     SigHashes |-> TxSigHashes(<<c, c, c>>, <<HashBytes, HashBytes, HashBytes>>)] :
      i \in {0, 1}, c \in {1, 2} }

\* what the signer's ComputeInputScript answers
InputScriptResps ==
  { [rpcOk |-> FALSE, SigHashes |-> Nil, InputScripts |-> <<>>],
    [rpcOk |-> TRUE, SigHashes |-> Nil, InputScripts |-> <<"w1">>] }
  \cup { [rpcOk |-> TRUE, SigHashes |-> Some(TxSigHashes(<<7, 8, 9>>, ns)),
          InputScripts |-> scripts] :
           ns \in [1 .. 3 -> {HashBytes - 1, HashBytes}],
           scripts \in {<<>>, <<"w1">>} }

\* a slip: each midstate written as soon as it has been read
SigHashesAfterEachRead(old, new) ==
  [f \in DOMAIN old |-> IF Len(new[f]) = HashBytes THEN new[f] ELSE old[f]]

\* lines 293-301: chainhash.Hash.SetBytes fails unless it is given HashSize
\* bytes
SetBytesError(new) ==
  IF Len(new.HashPrevOuts) # HashBytes THEN "bad HashPrevOuts"
  ELSE IF Len(new.HashSequence) # HashBytes THEN "bad HashSequence"
  ELSE IF Len(new.HashOutputs) # HashBytes THEN "bad HashOutputs"
  ELSE ""

\* lines 293-304: the descriptor's midstates when the answer has been read
SigHashesAfter(old, new) == IF SetBytesError(new) = "" THEN new ELSE old

\* rpcSigner.ComputeInputScript, lines 261-309
ComputeInputScript(rpcOk) ==
  \E signDesc \in SignDescriptors, serializeOk \in BOOLEAN,
     r \in { x \in InputScriptResps : x.rpcOk = rpcOk } :
    LET call == [op |-> "ComputeInputScript", before |-> signDesc, r |-> r,
                 signDesc |-> signDesc, err |-> "", script |-> Nil,
                 panic |-> FALSE]
        read == [signDesc EXCEPT
                   !.SigHashes = SigHashesAfter(signDesc.SigHashes, r.SigHashes[1])]
    IN
    /\ last' =
         IF ~serializeOk THEN [call EXCEPT !.err = "tx.Serialize"]
         ELSE IF ~r.rpcOk THEN [call EXCEPT !.err = "srpc.ComputeInputScript"]
         ELSE IF r.SigHashes = Nil THEN [call EXCEPT !.panic = TRUE]
         ELSE IF SetBytesError(r.SigHashes[1]) # ""
         THEN [call EXCEPT !.err = SetBytesError(r.SigHashes[1]), !.signDesc = read]
         ELSE IF r.InputScripts = <<>>
         THEN [call EXCEPT !.panic = TRUE, !.signDesc = read]
         ELSE [call EXCEPT !.script = Some(r.InputScripts[1]), !.signDesc = read]
    /\ UNCHANGED <<lnurlState, sweepVars>>

\* rpcSigner.SignOutputRaw, lines 226-259; a raw signature parses unless it
\* is "bad"
SignOutputRaw(rpcOk) ==
  \E signDesc \in SignDescriptors, serializeOk \in BOOLEAN,
     RawSigs \in {<<>>, <<"30aa">>, <<"bad">>} :
    LET call == [op |-> "SignOutputRaw", before |-> signDesc,
                 r |-> [rpcOk |-> rpcOk, RawSigs |-> RawSigs],
                 signDesc |-> signDesc, err |-> "", script |-> Nil,
                 panic |-> FALSE]
    IN
    /\ last' =
         IF ~serializeOk THEN [call EXCEPT !.err = "tx.Serialize"]
         ELSE IF ~rpcOk THEN [call EXCEPT !.err = "srpc.SignOutputRaw"]
         ELSE IF RawSigs = <<>> THEN [call EXCEPT !.panic = TRUE]
         ELSE IF RawSigs[1] = "bad" THEN [call EXCEPT !.err = "malformed signature"]
         ELSE [call EXCEPT !.script = Some(RawSigs[1])]
    /\ UNCHANGED <<lnurlState, sweepVars>>

\* a slip: the node's publish error not looked at
PublishTransactionErrorOfRpc(txHex, r) ==
  IF r.err # Nil
  THEN Some([msg |-> "walletKitClient.PublishTransaction(" \o txHex \o "): "
                       \o r.err[1],
             wrapped |-> r.err])
  ELSE Nil

\* Service.PublishTransaction, lines 30-40: the error returned, Nil or
\* Some([msg, wrapped]); fmt.Errorf wraps the rpc's error (%w) and prints
\* the node's publish error (%v).  r: the rpc's error and, without one, the
\* answer's PublishError.
PublishTransactionError(txHex, r) ==
  IF r.err # Nil
  THEN Some([msg |-> "walletKitClient.PublishTransaction(" \o txHex \o "): "
                       \o r.err[1],
             wrapped |-> r.err])
  ELSE IF r.PublishError # ""
  THEN Some([msg |-> "walletKitClient.PublishTransaction(" \o txHex \o "): "
                       \o r.PublishError,
             wrapped |-> Nil])
  ELSE Nil

PublishTransaction ==
  \E txHex \in {"0200", "02ab"},
     r \in [err : {Nil}, PublishError : {"", "min relay fee not met", "unavailable"}]
             \cup [err : {Some("unavailable"), Some("deadline exceeded")},
                   PublishError : {""}] :
    /\ last' = [op |-> "PublishTransaction", txHex |-> txHex, r |-> r,
                err |-> PublishTransactionError(txHex, r)]
    /\ UNCHANGED <<lnurlState, sweepVars>>

NextRemote ==
  \/ \E rpcOk \in BOOLEAN : ComputeInputScript(rpcOk)
  \/ \E rpcOk \in BOOLEAN : SignOutputRaw(rpcOk)
  \/ PublishTransaction

SpecRemote == InitSweep /\ [][NextRemote]_vars

\* C23: ComputeInputScript writes the three midstates the signer returned
\* into the caller's descriptor before it returns the witness and script
\* signature; when it returns an error, the rpc having failed or a returned
\* midstate being malformed, the descriptor is as the caller passed it; and
\* SignOutputRaw never changes the descriptor.
C23_MidstatesWrittenBack ==
  /\ last.op = "ComputeInputScript" /\ last.script # Nil =>
       /\ last.err = ""
       /\ last.signDesc.SigHashes = last.r.SigHashes[1]
       /\ last.signDesc = [last.before EXCEPT !.SigHashes = last.r.SigHashes[1]]
  /\ last.op = "ComputeInputScript" /\ last.err # "" => last.signDesc = last.before
  /\ last.op = "SignOutputRaw" => last.signDesc = last.before

\* a script returned with midstates that differ from those passed
C23_Witness ==
  /\ last.op = "ComputeInputScript"
  /\ last.script = Some("w1")
  /\ last.signDesc.SigHashes.HashOutputs = HashOfLen(9, HashBytes)
  /\ last.before.SigHashes.HashOutputs = HashOfLen(1, HashBytes)

\* C24: PublishTransaction returns nil only if the rpc succeeded and the
\* node reported an empty publish error; a non-empty publish error gives an
\* error that carries that reason and differs from the error of a failed
\* rpc.
C24_PublishErrorReported ==
  last.op = "PublishTransaction" =>
    /\ last.err = Nil <=> (last.r.err = Nil /\ last.r.PublishError = "")
    /\ last.r.err = Nil /\ last.r.PublishError # "" =>
         /\ last.err # Nil
         /\ last.err[1].msg = "walletKitClient.PublishTransaction(" \o last.txHex
                                \o "): " \o last.r.PublishError
         /\ \A e \in {"unavailable", "deadline exceeded"} :
              last.err # PublishTransactionError(last.txHex,
                            [err |-> Some(e), PublishError |-> ""])
    /\ last.r.err # Nil => last.err # Nil /\ last.err[1].wrapped = last.r.err

\* the node rejected the transaction with the text a failed rpc has
C24_Witness ==
  /\ last.op = "PublishTransaction"
  /\ last.r.err = Nil
  /\ last.r.PublishError = "unavailable"
  /\ last.err # Nil

(***************************************************************************)
(* Calls over a transport that is asked again and again (SpecRetry).  The  *)
(* caller holds in pending what the transport does with each request a     *)
(* call could make, one after the other: TRUE, the request is answered,    *)
(* FALSE, it fails in transport.                                           *)
(***************************************************************************)
\* a slip: a request that failed in transport made once more
RoundTripRetried(outcomes) == outcomes[1] \/ outcomes[2]

\* the one request of a call: http.Get at lines 173, 195 and 279 of
\* part_000, the rpc at sweep.go lines 167, 246 and 280
RoundTrip(outcomes) == outcomes[1]

\* the transport takes another turn; no call was made under it yet
RetryOffer ==
  /\ \E outcomes \in [1 .. 2 -> BOOLEAN] : pending' = Some(outcomes)
  /\ last' = [op |-> "none"]
  /\ UNCHANGED <<lnurlWithdrawing, lnurlPayMetadata, payInfos, captured,
                 linkKeys, daemon, authVars, sweepVars>>

RetryLnurlCall ==
  /\ pending # Nil
  /\ UNCHANGED callerVars
  /\ LET neterr == ~RoundTrip(pending[1]) IN
     \/ \E params \in SeqAuthParams, http \in AuthAnswers :
          http.neterr = neterr /\ FinishLNURLAuth(params, TRUE, "s1", http)
     \/ \E http \in WithdrawAnswers :
          http.neterr = neterr /\ FinishLNURLWithdraw("lnbc1w", http)
     \/ \E params \in SeqPayParams, http \in SeqPayAnswers :
          http.neterr = neterr /\ FinishLNURLPay(params, http, TRUE)

RetrySweepCall ==
  /\ pending # Nil
  /\ LET rpcOk == RoundTrip(pending[1]) IN
     \/ RusList(rpcOk)
     \/ ComputeInputScript(rpcOk)
     \/ SignOutputRaw(rpcOk)

NextRetry == RetryOffer \/ RetryLnurlCall \/ RetrySweepCall

SpecRetry == InitSeq /\ [][NextRetry]_vars

\* C22: no implicit retry.  A call of FinishLNURLAuth, FinishLNURLWithdraw or
\* FinishLNURLPay makes at most one request to the callback, a call of the
\* signer or of the utxo source at most one rpc, and a failure of that
\* request in transport is the error the call returns, whatever a second
\* request would have met.
C22_NoImplicitRetry ==
  pending # Nil =>
    LET answered == pending[1][1] IN
    CASE last.op \in {"FinishLNURLWithdraw", "FinishLNURLPay"} ->
           /\ last.http.neterr = ~answered
           /\ ~answered => last.err = ErrTransport
      [] last.op = "FinishLNURLAuth" ->
           last.url # "" =>
             /\ last.http.neterr = ~answered
             /\ ~answered => last.err = ErrTransport
      [] last.op \in {"ComputeInputScript", "SignOutputRaw"} ->
           /\ last.r.rpcOk = answered
           /\ ~answered /\ last.err # "tx.Serialize" =>
                last.err = "srpc." \o last.op /\ last.script = Nil
      [] last.op = "ListUnspentWitness" ->
           ~answered <=> last.err = "u.lightningClient.ListUnspent"
      [] OTHER -> TRUE

\* a pay whose request failed in transport while a second would have been
\* answered
C22_Witness ==
  /\ pending = Some(<<FALSE, TRUE>>)
  /\ last.op = "FinishLNURLPay"
  /\ last.err = ErrTransport

(***************************************************************************)
(* The login request (SpecAuth).                                           *)
(***************************************************************************)
\* C25: for valid auth parameters the request FinishLNURLAuth makes to the
\* callback carries key, the compressed public key of the link key derived
\* for authParams.Host, and sig, a DER signature over the decoded k1 that
\* verifies against that key, and carries jwt=true if and only if
\* authParams.Jwt is set.
C25_LoginRequest ==
  last.op = "FinishLNURLAuth" /\ last.key # Nil /\ last.params.K1 \in {"c1", "d2"} =>
    LET link == DeriveLinkKey(seedDB[1], last.params.Host).key
        id == link.seed \o PathString(link.path)
        own == last.params.Callback = "https://a.example/login?tag=login&k1=c1"
    IN  last.url = "https://a.example/login?"
                     \o (IF last.params.Jwt THEN "jwt=true&" ELSE "")
                     \o (IF own THEN "k1=c1&" ELSE "")
                     \o "key=02" \o id
                     \o "&sig=30" \o id \o ":" \o last.params.K1
                     \o (IF own THEN "&tag=login" ELSE "")

\* a login asked with jwt at a callback that has a query of its own
C25_Witness ==
  /\ last.op = "FinishLNURLAuth"
  /\ last.key # Nil
  /\ last.params.Jwt
  /\ last.params.Callback = "https://a.example/login?tag=login&k1=c1"
  /\ last.params.Host = "b.example"
  /\ last.url # ""

(***************************************************************************)
(* An invoice without an amount (SpecPay).                                 *)
(***************************************************************************)
\* C26: when the service answers with a well-formed invoice that names no
\* amount, and whose description hash is that of the pending metadata,
\* FinishLNURLPay returns the amount-mismatch error and persists nothing; it
\* neither crashes nor accepts the invoice.
C26_AmountlessInvoiceRejected ==
  (/\ LastPay
   /\ GotInvoice
   /\ last.http.body.PR.DescriptionHash = Some(Sha256(last.encoded))
   /\ last.http.body.PR.MilliSat = Nil) =>
     /\ ~last.panic
     /\ last.err = ErrAmountMismatch
     /\ last.info = Nil

(***************************************************************************)
(* The satoshi range of a resolved Pay variant (SpecSeq).                  *)
(***************************************************************************)
\* C27: for a resolved Pay variant every whole-satoshi amount s with
\* MinAmount <= s <= MaxAmount has minSendable <= 1000 * s <= maxSendable.
C27_PayRangeWithinMsatBounds ==
  (/\ last.op = "HandleLNURL"
   /\ last.err = ""
   /\ last.target.kind = "payRequest") =>
     \A s \in last.resp[1].MinAmount .. last.resp[1].MaxAmount :
       /\ last.target.MinSendable <= 1000 * s
       /\ 1000 * s <= last.target.MaxSendable

(***************************************************************************)
(* The daemon under any interleaving of its callers and goroutines         *)
(* (SpecDaemon), and with goroutines that are scheduled and an lnd that    *)
(* returns once a shutdown was requested (SpecDaemonFair).                 *)
(***************************************************************************)
NextDaemon ==
  \/ Start
  \/ StartReturns
  \/ RestartDaemon
  \/ \E r \in 1 .. MaxRuns : MainExits(r)
  \/ \E r \in 1 .. MaxRuns : notifyWhenReady(r)
  \/ \E who \in {"Stop", "go"} : stopDaemon(who)
  \/ stopDaemonReturns
  \/ \E i \in 1 .. MaxStops : Stop(i)
  \/ \E i \in 1 .. MaxStops : StopReturns(i)

SpecDaemon == InitSeq /\ [][NextDaemon]_vars

Fairness ==
  /\ \A who \in {"Stop", "go"} : WF_vars(stopDaemon(who))
  /\ WF_vars(stopDaemonReturns)
  /\ \A r \in 1 .. MaxRuns : WF_vars(daemon.closes[r] > 0 /\ notifyWhenReady(r))
  /\ \A r \in 1 .. MaxRuns : WF_vars(~daemon.alive /\ MainExits(r))
  /\ \A i \in 1 .. MaxStops : WF_vars(StopReturns(i))

SpecDaemonFair == SpecDaemon /\ Fairness

\* the goroutines of run r that have not called Done
Live(d, r) == d.main[r] = "running" \/ d.notify[r] = "select"

\* C28: at most one run of the daemon is active at any time; a Start after
\* the first returns "Daemon already started", RestartDaemon before any Start
\* returns an error, and a startDaemon that finds daemonRunning set returns
\* "Daemon already running", starts no goroutine and keeps quitChan.
C28_OneRunActive ==
  [][/\ \A r1, r2 \in 1 .. MaxRuns :
          Live(daemon', r1) /\ Live(daemon', r2) => r1 = r2
     /\ \A r \in 1 .. MaxRuns : Live(daemon', r) => r = daemon'.quitChan
     /\ daemon.started = 1 /\ daemon'.ret # daemon.ret /\ daemon'.ret.op = "Start"
          /\ daemon.startPc = daemon'.startPc
          => daemon'.ret.err = "Daemon already started" /\ daemon'.wg = daemon.wg
     /\ daemon.started = 0 /\ daemon'.ret.op = "RestartDaemon"
          => daemon'.ret.err # "" /\ daemon'.wg = daemon.wg
             /\ daemon'.quitChan = daemon.quitChan
     /\ daemon.daemonRunning
          => /\ daemon'.quitChan = daemon.quitChan
             /\ daemon'.wg <= daemon.wg
             /\ \A r \in 1 .. MaxRuns : Live(daemon', r) => Live(daemon, r)
             /\ daemon'.ret # daemon.ret
                  /\ daemon'.ret.op \in {"Start", "RestartDaemon"}
                  /\ daemon.started = 1
                  /\ (daemon'.ret.op = "Start" => daemon.startPc # daemon'.startPc)
                  => daemon'.ret.err \in {"Daemon already running",
                                          "Failed to start daemon: Daemon already running"}
    ]_vars

\* a second run is active, the first one over, and a RestartDaemon has just
\* been refused
C28_Witness ==
  /\ daemon.quitChan = 2
  /\ daemon.daemonRunning
  /\ Live(daemon, 2) /\ ~Live(daemon, 1)
  /\ daemon.ret = [op |-> "RestartDaemon", err |-> "Daemon already running"]

StopLeavesStopped ==
  [][\A i \in 1 .. MaxStops :
       daemon.stopPc[i] # "returned" /\ daemon'.stopPc[i] = "returned"
         => /\ ~daemon'.daemonRunning
            /\ \A r \in 1 .. MaxRuns : ~Live(daemon', r)]_vars

\* a Stop that was called returns
StopReturnsEventually ==
  \A i \in 1 .. MaxStops :
    (daemon.stopPc[i] # "idle") ~> (daemon.stopPc[i] = "returned")

\* C30: every Stop returns in the end, and when it returns daemonRunning is
\* false and no goroutine of the daemon is live, also for a Stop that comes
\* after a RestartDaemon that followed an earlier Stop.
C30_StopReturnsWithDaemonStopped == StopLeavesStopped /\ StopReturnsEventually

(***************************************************************************)
(* WaitReadyForPayment (SpecWait, SpecWaitFair).  The node, its channels   *)
(* and the notification server are the environment: the server hands an    *)
(* update to every client subscribed when it is sent, and a ChannelEvent   *)
(* is sent with every change of the channels' activity.                    *)
(***************************************************************************)
\* updates in the queue of the client
MaxUpdates == 3

Updates == {"ChannelEvent", "other"}

\* IsReadyForPayment, lines 102-114; rpcOk: allChannelsActive returns no error
IsReadyForPayment(node, rpcOk) ==
  IF ~node.client THEN FALSE
  ELSE IF ~rpcOk THEN FALSE
  ELSE node.allActive

\* a slip: the timeout reported without the last look
TimeoutErrorAlways(ready) ==
  "timeout has exceeded while trying to process your request"

\* lines 90-94: what the timeout case returns
TimeoutError(ready) ==
  IF ready THEN ""
  ELSE "timeout has exceeded while trying to process your request"

\* an IsReadyForPayment made at `at` that found `ready`
Observed(w, node, at, ready) ==
  [w EXCEPT !.obs = [at |-> at, ready |-> ready], !.sawActive = node.allActive]

\* return, with the deferred client.Cancel() of line 73
Return(w, err) ==
  [w EXCEPT !.pc = "returned", !.err = err, !.subscribed = FALSE]

\* lines 69-73: ntfnServer.Subscribe()
WaitReadyForPayment ==
  /\ daemon.w.pc = "idle"
  /\ \E subscribeOk \in BOOLEAN :
       daemon' = [daemon EXCEPT
                    !.w = IF subscribeOk
                          THEN [@ EXCEPT !.pc = "check", !.subscribed = TRUE]
                          ELSE [@ EXCEPT !.pc = "returned", !.err = "Subscribe"]]
  /\ UNCHANGED accountVars

\* lines 75-79: the look at entry, and the timer
FirstCheck ==
  /\ daemon.w.pc = "check"
  /\ \E rpcOk \in BOOLEAN :
       LET ready == IsReadyForPayment(daemon.node, rpcOk)
           w == Observed(daemon.w, daemon.node, "entry", ready) IN
       daemon' = [daemon EXCEPT
                    !.w = IF ready THEN Return(w, "")
                          ELSE [w EXCEPT !.pc = "select", !.timer = "armed"]]
  /\ UNCHANGED accountVars

\* lines 82-88: the select receives an update; after a ChannelEvent line 83
\* logs one IsReadyForPayment and line 84 decides on another
UpdateCase ==
  /\ daemon.w.pc = "select"
  /\ daemon.w.updates # <<>>
  /\ LET event == Head(daemon.w.updates)
         w0 == [daemon.w EXCEPT !.updates = Tail(@)] IN
     IF event = "ChannelEvent"
     THEN \E rpcOk \in BOOLEAN :
            LET ready == IsReadyForPayment(daemon.node, rpcOk)
                w == Observed(w0, daemon.node, "event", ready) IN
            daemon' = [daemon EXCEPT !.w = IF ready THEN Return(w, "") ELSE w]
     ELSE daemon' = [daemon EXCEPT !.w = w0]
  /\ UNCHANGED accountVars

\* lines 89-94: the select receives from the timer
TimeoutCase ==
  /\ daemon.w.pc = "select"
  /\ daemon.w.timer = "fired"
  /\ \E rpcOk \in BOOLEAN :
       LET ready == IsReadyForPayment(daemon.node, rpcOk)
           w == Observed(daemon.w, daemon.node, "timeout", ready) IN
       daemon' = [daemon EXCEPT !.w = Return(w, TimeoutError(ready))]
  /\ UNCHANGED accountVars

\* line 78: the timeout passes
TimerFires ==
  /\ daemon.w.timer = "armed"
  /\ daemon' = [daemon EXCEPT !.w.timer = "fired"]
  /\ UNCHANGED accountVars

\* ntfnServer.SendUpdate: to the client, if it is subscribed
SendUpdate(w, event) ==
  IF w.subscribed
  THEN [w EXCEPT !.updates = Append(@, event),
                 !.early = @ \/ w.pc = "check"]
  ELSE w

\* the channels become active or inactive, or stay as they are, and a
\* ChannelEvent is sent
ChannelEvent ==
  /\ Len(daemon.w.updates) < MaxUpdates
  /\ \E active \in BOOLEAN :
       daemon' = [daemon EXCEPT !.node.allActive = active,
                                !.w = SendUpdate(@, "ChannelEvent")]
  /\ UNCHANGED accountVars

\* any other update of the server
OtherEvent ==
  /\ Len(daemon.w.updates) < MaxUpdates
  /\ daemon.w.subscribed
  /\ daemon' = [daemon EXCEPT !.w = SendUpdate(@, "other")]
  /\ UNCHANGED accountVars

\* the lightning client is set, or dropped
SetAPIClient ==
  /\ daemon' = [daemon EXCEPT !.node.client = ~@]
  /\ UNCHANGED accountVars

NextWait ==
  \/ WaitReadyForPayment
  \/ FirstCheck
  \/ UpdateCase
  \/ TimeoutCase
  \/ TimerFires
  \/ ChannelEvent
  \/ OtherEvent
  \/ SetAPIClient

SpecWait == InitSeq /\ [][NextWait]_vars

\* the select takes a case that stays ready
SpecWaitFair == SpecWait /\ WF_vars(TimeoutCase)

\* the call returns in this step
WaitReturns == daemon.w.pc # "returned" /\ daemon'.w.pc = "returned"

\* nil is returned only on a look that found the node ready, made at entry,
\* after a ChannelEvent or at the timeout; the timeout error only from the
\* timeout case, the timer fired, on a look that found it not ready
WaitResult ==
  /\ WaitReturns /\ daemon'.w.err = ""
       => /\ daemon.node.client /\ daemon.node.allActive
          /\ daemon'.w.obs.ready
          /\ \/ daemon'.w.obs.at = "entry" /\ daemon.w.pc = "check"
             \/ /\ daemon'.w.obs.at = "event"
                /\ daemon.w.pc = "select"
                /\ Head(daemon.w.updates) = "ChannelEvent"
             \/ /\ daemon'.w.obs.at = "timeout"
                /\ daemon.w.pc = "select" /\ daemon.w.timer = "fired"
  /\ WaitReturns /\ daemon'.w.err = TimeoutErrorAlways(FALSE)
       => /\ daemon.w.timer = "fired"
          /\ daemon'.w.obs = [at |-> "timeout", ready |-> FALSE]
  /\ WaitReturns => ~daemon'.w.subscribed

\* a ChannelEvent sent since the look at entry that found the channels
\* active is still to be received, or the look after it saw them active
NoEventMissed ==
  daemon.w.pc = "select" /\ daemon.node.allActive
    => \/ \E k \in 1 .. Len(daemon.w.updates) :
            daemon.w.updates[k] = "ChannelEvent"
       \/ daemon.w.sawActive

====
